---- MODULE Spec2Model ----
(***************************************************************************)
(* Provider / hook / MessageSystem engine of phf (src/phf/provider.py,     *)
(* src/ProviderHookFramework/abstracthook.py).                             *)
(*                                                                         *)
(* One provider of one of the three disciplines drives a list of hooks.    *)
(* Scheduler tasks (provider cycle, hook loops, gather getters, the        *)
(* MessageSystem listener) take one step from a suspension point to the    *)
(* next; OS threads (the Blocking worker, MessageSystem clients) take one  *)
(* step per shared-memory access.                                          *)
(***************************************************************************)
EXTENDS Integers, Sequences, FiniteSets, TLC

\* ---------------------------------------------------------------- bounds
MaxHooks == 2
MaxItems == 3
MaxSends == 1
MaxRetrieves == 1
MaxGetterCalls == 3
MaxQueues == 4
MaxProviders == 2
MaxCommands == 3
MaxRounds == 2
MaxStarts == 3
MaxStops == 1
MaxFailures == 1
MaxPathLen == 2
MaxRestarts == 1

HookIds == 1..MaxHooks
Kinds == {"Periodic", "Blocking", "Complex"}
Threads == {1, 2}
NoVal == 0 - 1
NoQueue == 0
QueueIds == 1..MaxQueues
Sources == {1, 2}
ProviderIds == 1..MaxProviders
CommandKinds == {"list", "new_provider", "bad"}
Aliases == {1, 2}
Classes == {1, 2}
NoClass == 0
\* what one path holds: the (alias, class) registrations its analysis makes, in order
Paths == UNION {[1..n -> Aliases \X Classes] : n \in 1..MaxPathLen}

VARIABLES
    kind,                       \* discipline of the provider under test
    identity_hooks,             \* TRUE: every hook_action returns its input
    asynio_hooks,               \* _asynio_hooks: hooks in registration order
    asyncio_straight_queues,    \* _asyncio_straight_queues: hook whose inbound queue sits at index i
    asyncio_callback_queues,    \* _asyncio_callback_queues: hook whose outbound queue sits at index i
    asyncio_running,            \* _asyncio_running
    asyncio_loop,               \* _asyncio_loop is set
    prov_pc,                    \* position of the provider's cycle task
    prov_content,               \* content held by the cycle task
    prov_msg_id,                \* msg_id held by the Complex cycle task
    next_content,               \* test providers' self.id: get_content yields 0,1,2,...
    logs,                       \* arguments of result_callback, in call order
    gather_queues,              \* queues captured by the pending asyncio.gather
    gather_results,             \* its per-index results (NoVal: getter still pending)
    gather_active,              \* a gather is pending
    straight_queue,             \* hook -> contents of its _asyncio_queue
    callback_queue,             \* hook -> contents of its _callback_queue
    hook_pc,                    \* hook -> position of cycle_call
    hook_target,                \* hook -> item being processed
    content_queue,              \* BlockingContentProvider._content_queue
    loop_calls,                 \* coroutines handed to the loop by run_coroutine_threadsafe, FIFO
    worker_pc,                  \* position of the Blocking worker thread
    worker_content,             \* content held by the worker
    worker_res,                 \* result of the worker's _run_result_callback future, <<>> or <<res>>
    fed,                        \* history: items broadcast, in order
    agg_log,                    \* history: aggregated result lists, in order
    input_queue,                \* MessageSystem._input_queue contents
    input_set,                  \* _input_queue is not None
    output_queue,               \* MessageSystem._output_queue contents
    output_set,                 \* _output_queue is not None
    tmp_queue,                  \* _tmp_queue
    message_id,                 \* _message_id
    result_to_mID_mapping,      \* _result_to_mID_mapping: id -> result
    needed_output_events,       \* _needed_output_events: id -> event (named by its waiting thread)
    event_set,                  \* thread -> its cur_event is set
    lock,                       \* holder of _lock across steps: "free", "init", "listener"
    listener_pc,                \* position of _serve_provider_results
    listener_msg_id,            \* msg_id held by the listener
    th_pc,                      \* client thread -> position
    th_data,                    \* client thread -> data being sent
    th_branch,                  \* client thread -> _input_queue was None at the check
    th_mid,                     \* client thread -> _message_id read for the message
    th_load,                    \* client thread -> _message_id loaded by +=
    th_want,                    \* client thread -> message_id being retrieved
    th_sends,                   \* client thread -> sends started
    th_retrieves,               \* client thread -> retrieve_result calls started
    send_log,                   \* history: completed sends [t, data, id]
    ret_log,                    \* history: completed retrieve_result calls
    tmp_hist,                   \* history: messages put on _tmp_queue, in order
    input_hist,                 \* history: messages put on _input_queue, in order
    tmp_at_init,                \* history: _tmp_queue when initialize() started
    post_log,                   \* history: (result, msg_id) pairs put on _output_queue
    adder_pc,                   \* foreign thread inside add_hook: position
    adder_hook,                 \* foreign thread inside add_hook: the hook
    dup_pc,                     \* hook -> position of a second cycle_call task on it
    dup_target,                 \* hook -> item held by that second task
    add_returned,               \* history: hooks whose add_hook on a running provider returned
    add_raised,                 \* history: hooks whose add_hook raised
    lone_asyncio_queue,         \* stand-alone hook: _asyncio_queue (NoQueue: None, else the instance)
    lone_callback_queue,        \* stand-alone hook: _callback_queue
    queues_made,                \* asyncio.Queue instances created by the hook so far
    queue_items,                \* queue instance -> its contents
    lone_pc,                    \* stand-alone hook: position of cycle_call
    lone_wait,                  \* instance the cycle_call task awaits get() on
    lone_target,                \* item held by the cycle_call task
    getter_calls,               \* getter calls made by the hook's user
    got_straight,               \* history: instances returned by get_straight_queue
    got_callback,               \* history: instances returned by get_callback_queue
    lone_put,                   \* history: items the user put on the inbound queue
    lone_emitted,               \* history: outputs the hook put on its outbound queue
    lone_out,                   \* history: outputs the user read from the outbound queue
    running_state,              \* PHFSystem._running_state
    providers,                  \* PHFSystem._providers, in registration order
    provider_started,           \* provider -> number of start() calls made on it
    sys_pc,                     \* position of PHFSystem._start_main_coroutine
    command_queue,              \* _command_queue: (command, evoker) pairs
    result_queue,               \* the one result_queue handed to every input source
    result_getters,             \* sources suspended in result_queue.get(), oldest first
    src_pc,                     \* input source -> position of _cycle
    src_cmd,                    \* input source -> command whose result it awaits
    commands,                   \* command -> [kind, source], in creation order
    applied,                    \* history: commands applied, in order
    handed,                     \* history: (command, evoker) of every set_command_result call
    received,                   \* history: results taken by the sources
    failed,                     \* history: the command whose application raised
    fleet_kind,                 \* provider -> its class ("None": not constructed)
    is_with_callback,           \* provider -> _is_with_callback
    hook_count,                 \* provider -> length of its _asynio_hooks
    asyncio_task,               \* provider -> _asyncio_task: "None" or the task's position
    must_cancel,                \* provider -> cancel() was called on its task and not delivered
    is_running,                 \* provider -> _asyncio_running
    start_calls,                \* provider -> start() calls made
    contents,                   \* provider -> get_content calls that returned
    hook_tasks,                 \* hook -> position of its cycle_call task ("None": not created)
    hook_stopped,               \* hook -> stop() was called on it
    hook_inbound,               \* hook -> contents of its inbound queue
    hook_held,                  \* hook -> item its hook_action is working on
    hook_outbound,              \* hook -> contents of its outbound queue
    notified,                   \* history: provider -> items it broadcast, in order
    aggregated,                 \* history: provider -> aggregation steps completed
    thread_pc,                  \* Blocking provider -> position of its worker thread
    handoff,                    \* Blocking provider -> contents of its _content_queue
    thread_calls,               \* Blocking provider -> coroutines its worker handed to the loop
    thread_gather,              \* Blocking provider -> the worker's _run_result_callback is in its gather
    initialize_calls,           \* Complex provider -> MessageSystem.initialize() calls completed
    queues_handed,              \* Complex provider -> queue pairs its MessageSystem has made
    listener_tasks,             \* Complex provider -> listener tasks its MessageSystem has created
    stop_calls,                 \* stop() calls that asked for a cancellation, all providers together
    failures,                   \* exceptions raised by user coroutines, all providers together
    hooks_of,                   \* orchestrator's provider -> its _asynio_hooks
    hooks_made,                 \* hooks created by create_hook so far
    executions,                 \* history: the execute_command calls, in order
    returned,                   \* the lists handed to callers: reference, origin, items when handed out
    copies,                      \* the items of the lists made by slice copies
    classes,                    \* _BasicAnalyser._classes: alias -> registered class
    alias_error,                \* the AliasDoublingError the latest registration raised: alias, first class, second class
    analysed_path,              \* the path whose analysis completed most recently
    reg_seen,                    \* history: the kinds of registration met so far
    restarts,                    \* start() calls made after a stop()
    launch_i,                   \* _start_main_coroutine: index of the next provider its launch loop starts
    fadd_pc,                    \* position of the foreign thread inside add_provider
    fadd_p,                     \* provider the foreign thread is adding
    cycle_tasks,                \* provider -> cycle tasks created for it by start()
    fadd_raised                 \* history: providers whose add_provider raised

cfg_vars == <<kind, identity_hooks>>
wire_vars == <<asynio_hooks, asyncio_straight_queues, asyncio_callback_queues>>
flag_vars == <<asyncio_running, asyncio_loop>>
cycle_vars == <<prov_pc, prov_content, prov_msg_id>>
gather_vars == <<gather_queues, gather_results, gather_active>>
hookq_vars == <<straight_queue, callback_queue>>
hookt_vars == <<hook_pc, hook_target>>
worker_vars == <<worker_pc, worker_content, worker_res>>
hist_vars == <<fed, agg_log>>
msq_vars == <<input_queue, input_set, output_queue, output_set, tmp_queue>>
msmap_vars == <<result_to_mID_mapping, needed_output_events, event_set>>
listener_vars == <<listener_pc, listener_msg_id>>
thread_vars == <<th_pc, th_data, th_branch, th_mid, th_load, th_want, th_sends,
                 th_retrieves>>
mshist_vars == <<send_log, ret_log, tmp_hist, input_hist, tmp_at_init, post_log>>
ms_vars == <<msq_vars, message_id, msmap_vars, lock, listener_vars, thread_vars,
             mshist_vars>>

dyn_vars == <<adder_pc, adder_hook, dup_pc, dup_target, add_returned, add_raised>>
lone_vars == <<lone_asyncio_queue, lone_callback_queue, queues_made, queue_items,
               lone_pc, lone_wait, lone_target, getter_calls, got_straight,
               got_callback, lone_put, lone_emitted, lone_out>>
sys_vars == <<running_state, providers, provider_started, sys_pc, command_queue,
              result_queue, result_getters, src_pc, src_cmd, commands, applied,
              handed, received, failed>>
config_vars == <<fleet_kind, is_with_callback, hook_count>>
task_vars == <<asyncio_task, must_cancel, is_running, start_calls, contents>>
fhook_vars == <<hook_tasks, hook_stopped, hook_inbound, hook_held, hook_outbound>>
flog_vars == <<notified, aggregated>>
fworker_vars == <<thread_pc, handoff, thread_calls, thread_gather>>
fms_vars == <<initialize_calls, queues_handed, listener_tasks>>
fbound_vars == <<stop_calls, failures>>
fleet_vars == <<config_vars, task_vars, fhook_vars, flog_vars, fworker_vars, fms_vars,
                fbound_vars>>
cmd_vars == <<hooks_of, hooks_made, executions, returned, copies>>
reg_vars == <<classes, alias_error, analysed_path, reg_seen>>
restart_vars == <<restarts>>
race_vars == <<launch_i, fadd_pc, fadd_p, cycle_tasks, fadd_raised>>
nonreg_vars == <<cfg_vars, restart_vars, race_vars>>
nonrestart_vars == <<cfg_vars, reg_vars, race_vars>>
side_vars == <<cfg_vars, reg_vars, restart_vars, race_vars>>
far_vars == <<lone_vars, sys_vars, fleet_vars, cmd_vars>>
ext_vars == <<dyn_vars, far_vars>>
core_vars == <<wire_vars, flag_vars, cycle_vars, next_content, logs, gather_vars,
               hookq_vars, hookt_vars, content_queue, loop_calls, worker_vars,
               hist_vars, ms_vars>>

nonfleet_vars == <<side_vars, core_vars, dyn_vars, lone_vars, sys_vars, cmd_vars>>
noncmd_vars == <<side_vars, core_vars, dyn_vars, lone_vars, fleet_vars>>

vars == <<side_vars, ext_vars, core_vars>>

\* ---------------------------------------------------------------- helpers
RECURSIVE SeqOf(_, _)
SeqOf(x, n) == IF n = 0 THEN <<>> ELSE <<x>> \o SeqOf(x, n - 1)

Range(s) == {s[i] : i \in 1..Len(s)}

\* the scheduler thread is between two suspension points of a task that holds
\* _lock (initialize, the listener): no other task of the loop can run
LoopIdle == lock = "free"

\* hook_action of hook h on data x: identity (DebugLogging) or a transform
\* that marks the output with the hook that produced it.
hook_action(h, x) == IF identity_hooks THEN x ELSE x + 100 * h

\* ---------------------------------------------------------------- hooks
\* AbstractHook.cycle_call: target = await get_straight_queue().get()
HookGet(h) ==
    /\ LoopIdle
    /\ hook_pc[h] = "get"
    /\ straight_queue[h] # <<>>
    /\ hook_target' = [hook_target EXCEPT ![h] = Head(straight_queue[h])]
    /\ straight_queue' = [straight_queue EXCEPT ![h] = Tail(@)]
    /\ hook_pc' = [hook_pc EXCEPT ![h] = "action"]
    /\ UNCHANGED <<side_vars, ext_vars, wire_vars, flag_vars, cycle_vars, next_content, logs,
                   gather_vars, callback_queue, content_queue, loop_calls,
                   worker_vars, hist_vars, ms_vars>>

\* result = await hook_action(target); get_callback_queue().put_nowait(result)
HookEmit(h) ==
    /\ LoopIdle
    /\ hook_pc[h] = "action"
    /\ callback_queue' = [callback_queue EXCEPT
                            ![h] = Append(@, hook_action(h, hook_target[h]))]
    /\ hook_pc' = [hook_pc EXCEPT ![h] = "get"]
    /\ hook_target' = [hook_target EXCEPT ![h] = NoVal]
    /\ UNCHANGED <<side_vars, ext_vars, wire_vars, flag_vars, cycle_vars, next_content, logs,
                   gather_vars, straight_queue, content_queue, loop_calls,
                   worker_vars, hist_vars, ms_vars>>

\* ---------------------------------------------------------------- provider
\* _start_hook on the provider's own loop: remember the hook's queue.
start_hook_queues(qs, h) == Append(qs, h)

\* an add_hook that wires the hook without looking at _asyncio_running
AddHook_eager ==
    /\ prov_pc = "new"
    /\ Len(asynio_hooks) < MaxHooks
    /\ LET h == Len(asynio_hooks) + 1 IN
        /\ asynio_hooks' = Append(asynio_hooks, h)
        /\ asyncio_straight_queues' = start_hook_queues(asyncio_straight_queues, h)
        /\ asyncio_callback_queues' = start_hook_queues(asyncio_callback_queues, h)
        /\ hook_pc' = [hook_pc EXCEPT ![h] = "get"]
    /\ UNCHANGED <<side_vars, ext_vars, flag_vars, cycle_vars, next_content, logs, gather_vars,
                   hookq_vars, hook_target, content_queue, loop_calls, worker_vars,
                   hist_vars, ms_vars>>

\* add_hook: append; wire at once only when the provider is running.
\* The hook set is attached before the provider starts.
AddHook ==
    /\ prov_pc = "new"
    /\ Len(asynio_hooks) < MaxHooks
    /\ LET h == Len(asynio_hooks) + 1 IN
        /\ asynio_hooks' = Append(asynio_hooks, h)
        /\ IF asyncio_running
             THEN /\ asyncio_straight_queues' = start_hook_queues(asyncio_straight_queues, h)
                  /\ asyncio_callback_queues' = start_hook_queues(asyncio_callback_queues, h)
                  /\ hook_pc' = [hook_pc EXCEPT ![h] = "get"]
             ELSE UNCHANGED <<asyncio_straight_queues, asyncio_callback_queues, hook_pc>>
    /\ UNCHANGED <<side_vars, ext_vars, flag_vars, cycle_vars, next_content, logs, gather_vars,
                   hookq_vars, hook_target, content_queue, loop_calls, worker_vars,
                   hist_vars, ms_vars>>

\* _notify_all_hooks(data): put_nowait on every wired inbound queue.
notify_all_hooks(data) ==
    [h \in HookIds |->
        straight_queue[h] \o SeqOf(data,
            Cardinality({i \in 1..Len(asyncio_straight_queues) :
                            asyncio_straight_queues[i] = h}))]

\* __aenter__: bind the loop, raise the running flag, wire every attached
\* hook in registration order (_start_hook on the provider's own loop).
aenter ==
    /\ asyncio_loop' = TRUE
    /\ asyncio_running' = TRUE
    /\ asyncio_straight_queues' = asyncio_straight_queues \o asynio_hooks
    /\ asyncio_callback_queues' = asyncio_callback_queues \o asynio_hooks
    /\ hook_pc' = [h \in HookIds |->
                     IF h \in Range(asynio_hooks) THEN "get" ELSE hook_pc[h]]
    /\ UNCHANGED asynio_hooks

\* start(): raise the running flag and create the cycle task.
Start ==
    /\ prov_pc = "new"
    /\ prov_pc' = "started"
    /\ asyncio_running' = TRUE
    /\ UNCHANGED <<side_vars, ext_vars, wire_vars, asyncio_loop, prov_content, prov_msg_id,
                   next_content, logs, gather_vars, hookq_vars, hookt_vars,
                   content_queue, loop_calls, worker_vars, hist_vars, ms_vars>>

\* _run_result_callback with callbacks wanted: asyncio.gather over one get()
\* per outbound queue wired at this moment.
start_gather ==
    /\ gather_queues' = asyncio_callback_queues
    /\ gather_results' = SeqOf(NoVal, Len(asyncio_callback_queues))
    /\ gather_active' = TRUE

gather_complete ==
    /\ gather_active
    /\ \A i \in 1..Len(gather_results) : gather_results[i] # NoVal

\* a gather that files each result in completion order, not at its getter's index
GatherGet_completion_order(i) ==
    /\ LoopIdle
    /\ gather_active
    /\ i \in 1..Len(gather_queues)
    /\ \E j \in 1..Len(gather_results) :
        /\ gather_results[j] = NoVal
        /\ \A k \in 1..(j - 1) : gather_results[k] # NoVal
        /\ callback_queue[gather_queues[i]] # <<>>
        /\ gather_results' = [gather_results EXCEPT
                                ![j] = Head(callback_queue[gather_queues[i]])]
    /\ callback_queue' = [callback_queue EXCEPT ![gather_queues[i]] = Tail(@)]
    /\ UNCHANGED <<side_vars, ext_vars, wire_vars, flag_vars, cycle_vars, next_content, logs,
                   gather_queues, gather_active, straight_queue, hookt_vars,
                   content_queue, loop_calls, worker_vars, hist_vars, ms_vars>>

\* a getter that reads the head of the outbound queue and leaves it there
GatherGet_peek(i) ==
    /\ LoopIdle
    /\ gather_active
    /\ i \in 1..Len(gather_queues)
    /\ gather_results[i] = NoVal
    /\ callback_queue[gather_queues[i]] # <<>>
    /\ gather_results' = [gather_results EXCEPT
                            ![i] = Head(callback_queue[gather_queues[i]])]
    /\ UNCHANGED <<side_vars, ext_vars, wire_vars, flag_vars, cycle_vars, next_content, logs,
                   gather_queues, gather_active, hookq_vars, hookt_vars,
                   content_queue, loop_calls, worker_vars, hist_vars, ms_vars>>

\* one getter of the gather: queue.get() on the i-th captured outbound queue
GatherGet(i) ==
    /\ LoopIdle
    /\ gather_active
    /\ i \in 1..Len(gather_queues)
    /\ gather_results[i] = NoVal
    /\ callback_queue[gather_queues[i]] # <<>>
    /\ gather_results' = [gather_results EXCEPT
                            ![i] = Head(callback_queue[gather_queues[i]])]
    /\ callback_queue' = [callback_queue EXCEPT ![gather_queues[i]] = Tail(@)]
    /\ UNCHANGED <<side_vars, ext_vars, wire_vars, flag_vars, cycle_vars, next_content, logs,
                   gather_queues, gather_active, straight_queue, hookt_vars,
                   content_queue, loop_calls, worker_vars, hist_vars, ms_vars>>

\* ------------------------------------------------ PeriodicContentProvider
\* cycle: async with self
PeriodicEnter ==
    /\ kind = "Periodic"
    /\ prov_pc \in {"new", "started"}
    /\ aenter
    /\ prov_pc' = "while"
    /\ UNCHANGED <<side_vars, ext_vars, prov_content, prov_msg_id, next_content, logs,
                   gather_vars, hookq_vars, hook_target, content_queue, loop_calls,
                   worker_vars, hist_vars, ms_vars>>

\* while _is_running(): data = get_content(); _notify_all_hooks(data);
\* _run_result_callback() up to its gather
PeriodicCycle ==
    /\ kind = "Periodic"
    /\ prov_pc = "while"
    /\ asyncio_running
    /\ next_content < MaxItems
    /\ next_content' = next_content + 1
    /\ prov_content' = next_content
    /\ straight_queue' = notify_all_hooks(next_content)
    /\ fed' = Append(fed, next_content)
    /\ start_gather
    /\ prov_pc' = "gather"
    /\ UNCHANGED <<side_vars, ext_vars, wire_vars, flag_vars, prov_msg_id, logs, callback_queue,
                   hookt_vars, content_queue, loop_calls, worker_vars, agg_log,
                   ms_vars>>

\* result = gathered list; await result_callback(result); then sleep(period)
PeriodicCallback ==
    /\ kind = "Periodic"
    /\ prov_pc = "gather"
    /\ gather_complete
    /\ logs' = Append(logs, gather_results)
    /\ agg_log' = Append(agg_log, gather_results)
    /\ gather_active' = FALSE
    /\ gather_queues' = <<>>
    /\ gather_results' = <<>>
    /\ prov_pc' = "sleep"
    /\ UNCHANGED <<side_vars, ext_vars, wire_vars, flag_vars, prov_content, prov_msg_id,
                   next_content, hookq_vars, hookt_vars, content_queue, loop_calls,
                   worker_vars, fed, ms_vars>>

\* asyncio.sleep(period) is over
PeriodicSleep ==
    /\ kind = "Periodic"
    /\ prov_pc = "sleep"
    /\ prov_pc' = "while"
    /\ UNCHANGED <<side_vars, ext_vars, wire_vars, flag_vars, prov_content, prov_msg_id,
                   next_content, logs, gather_vars, hookq_vars, hookt_vars,
                   content_queue, loop_calls, worker_vars, hist_vars, ms_vars>>

\* ------------------------------------------------ BlockingContentProvider
\* cycle: async with self (fresh _content_queue); start the worker thread
BlockingEnter ==
    /\ kind = "Blocking"
    /\ prov_pc \in {"new", "started"}
    /\ aenter
    /\ content_queue' = <<>>
    /\ worker_pc' = "while"
    /\ prov_pc' = "cq_get"
    /\ UNCHANGED <<side_vars, ext_vars, prov_content, prov_msg_id, next_content, logs,
                   gather_vars, hookq_vars, hook_target, loop_calls, worker_content,
                   worker_res, hist_vars, ms_vars>>

\* worker: while _asyncio_running: content = get_content();
\* run_coroutine_threadsafe(_content_queue.put(content), loop)
WorkerGetContent ==
    /\ worker_pc = "while"
    /\ asyncio_running
    /\ next_content < MaxItems
    /\ next_content' = next_content + 1
    /\ worker_content' = next_content
    /\ loop_calls' = Append(loop_calls, <<"put", next_content, NoVal>>)
    /\ worker_pc' = "submit"
    /\ UNCHANGED <<side_vars, ext_vars, wire_vars, flag_vars, cycle_vars, logs, gather_vars,
                   hookq_vars, hookt_vars, content_queue, worker_res, hist_vars,
                   ms_vars>>

\* worker: run_coroutine_threadsafe(_run_result_callback(), loop), then .result()
WorkerSubmit ==
    /\ worker_pc = "submit"
    /\ loop_calls' = Append(loop_calls, <<"rrc", NoVal, NoVal>>)
    /\ worker_pc' = "result"
    /\ UNCHANGED <<side_vars, ext_vars, wire_vars, flag_vars, cycle_vars, next_content, logs,
                   gather_vars, hookq_vars, hookt_vars, content_queue,
                   worker_content, worker_res, hist_vars, ms_vars>>

\* worker: res = future.result(); await result_callback(res)
WorkerResult ==
    /\ worker_pc = "result"
    /\ worker_res # <<>>
    /\ logs' = Append(logs, worker_res[1])
    /\ worker_res' = <<>>
    /\ worker_pc' = "while"
    /\ UNCHANGED <<side_vars, ext_vars, wire_vars, flag_vars, cycle_vars, next_content,
                   gather_vars, hookq_vars, hookt_vars, content_queue, loop_calls,
                   worker_content, hist_vars, ms_vars>>

\* the loop runs the submitted _content_queue.put(content)
LoopRunPut ==
    /\ LoopIdle
    /\ loop_calls # <<>>
    /\ Head(loop_calls)[1] = "put"
    /\ content_queue' = Append(content_queue, Head(loop_calls)[2])
    /\ loop_calls' = Tail(loop_calls)
    /\ UNCHANGED <<side_vars, ext_vars, wire_vars, flag_vars, cycle_vars, next_content, logs,
                   gather_vars, hookq_vars, hookt_vars, worker_vars, hist_vars,
                   ms_vars>>

\* the loop runs the submitted _run_result_callback() up to its gather
LoopRunResultCallback ==
    /\ LoopIdle
    /\ loop_calls # <<>>
    /\ Head(loop_calls)[1] = "rrc"
    /\ start_gather
    /\ loop_calls' = Tail(loop_calls)
    /\ UNCHANGED <<side_vars, ext_vars, wire_vars, flag_vars, cycle_vars, next_content, logs,
                   hookq_vars, hookt_vars, content_queue, worker_vars, hist_vars,
                   ms_vars>>

\* the submitted _run_result_callback() returns: the worker's future resolves
BlockingGatherDone ==
    /\ kind = "Blocking"
    /\ LoopIdle
    /\ gather_complete
    /\ worker_res' = <<gather_results>>
    /\ agg_log' = Append(agg_log, gather_results)
    /\ gather_active' = FALSE
    /\ gather_queues' = <<>>
    /\ gather_results' = <<>>
    /\ UNCHANGED <<side_vars, ext_vars, wire_vars, flag_vars, cycle_vars, next_content, logs,
                   hookq_vars, hookt_vars, content_queue, loop_calls, worker_pc,
                   worker_content, fed, ms_vars>>

\* cycle: string = await _content_queue.get(); _notify_all_hooks(string)
BlockingCycleGet ==
    /\ kind = "Blocking"
    /\ LoopIdle
    /\ prov_pc = "cq_get"
    /\ asyncio_running
    /\ content_queue # <<>>
    /\ prov_content' = Head(content_queue)
    /\ content_queue' = Tail(content_queue)
    /\ straight_queue' = notify_all_hooks(Head(content_queue))
    /\ fed' = Append(fed, Head(content_queue))
    /\ UNCHANGED <<side_vars, ext_vars, wire_vars, flag_vars, prov_pc, prov_msg_id,
                   next_content, logs, gather_vars, callback_queue, hookt_vars,
                   loop_calls, worker_vars, agg_log, ms_vars>>

\* ------------------------------------------------ MessageSystem
MapPut(m, k, v) == [x \in (DOMAIN m) \cup {k} |-> IF x = k THEN v ELSE m[x]]
MapDel(m, k) == [x \in (DOMAIN m) \ {k} |-> m[x]]

\* data of the k-th send of client thread t
Payload(t, k) == 10 * t + k

\* ids handed out so far by completed send_to_provider calls
KnownIds == {r.id : r \in send_log}

\* send_to_provider: `if self._input_queue is None`, and the read of
\* self._message_id that builds the message
SendCheck(t) ==
    /\ kind = "Complex"
    /\ th_pc[t] = "idle"
    /\ th_sends[t] < MaxSends
    /\ th_sends' = [th_sends EXCEPT ![t] = @ + 1]
    /\ th_data' = [th_data EXCEPT ![t] = Payload(t, th_sends[t] + 1)]
    /\ th_branch' = [th_branch EXCEPT ![t] = ~input_set]
    /\ th_mid' = [th_mid EXCEPT ![t] = message_id]
    /\ th_pc' = [th_pc EXCEPT ![t] = "put"]
    /\ UNCHANGED <<side_vars, ext_vars, wire_vars, flag_vars, cycle_vars, next_content, logs,
                   gather_vars, hookq_vars, hookt_vars, content_queue, loop_calls,
                   worker_vars, hist_vars, msq_vars, message_id, msmap_vars, lock,
                   listener_vars, th_load, th_want, th_retrieves,
                   mshist_vars>>

\* _tmp_queue.put_nowait(msg), or run_coroutine_threadsafe(_input_queue.put(msg))
SendPut(t) ==
    /\ th_pc[t] = "put"
    /\ LET msg == <<th_data[t], th_mid[t]>> IN
        IF th_branch[t]
          THEN /\ tmp_queue' = Append(tmp_queue, msg)
               /\ tmp_hist' = Append(tmp_hist, msg)
               /\ UNCHANGED loop_calls
          ELSE /\ loop_calls' = Append(loop_calls, <<"input_put", th_data[t], th_mid[t]>>)
               /\ UNCHANGED <<tmp_queue, tmp_hist>>
    /\ th_pc' = [th_pc EXCEPT ![t] = "load"]
    /\ UNCHANGED <<side_vars, ext_vars, wire_vars, flag_vars, cycle_vars, next_content, logs,
                   gather_vars, hookq_vars, hookt_vars, content_queue, worker_vars,
                   hist_vars, input_queue, input_set, output_queue, output_set,
                   message_id, msmap_vars, lock, listener_vars, th_data, th_branch,
                   th_mid, th_load, th_want, th_sends, th_retrieves,
                   send_log, ret_log, input_hist, tmp_at_init, post_log>>

\* self._message_id += 1: the load
SendLoad(t) ==
    /\ th_pc[t] = "load"
    /\ th_load' = [th_load EXCEPT ![t] = message_id]
    /\ th_pc' = [th_pc EXCEPT ![t] = "store"]
    /\ UNCHANGED <<side_vars, ext_vars, wire_vars, flag_vars, cycle_vars, next_content, logs,
                   gather_vars, hookq_vars, hookt_vars, content_queue, loop_calls,
                   worker_vars, hist_vars, msq_vars, message_id, msmap_vars, lock,
                   listener_vars, th_data, th_branch, th_mid, th_want, th_sends,
                   th_retrieves, mshist_vars>>

\* self._message_id += 1: the store
SendStore(t) ==
    /\ th_pc[t] = "store"
    /\ message_id' = th_load[t] + 1
    /\ th_pc' = [th_pc EXCEPT ![t] = "ret"]
    /\ UNCHANGED <<side_vars, ext_vars, wire_vars, flag_vars, cycle_vars, next_content, logs,
                   gather_vars, hookq_vars, hookt_vars, content_queue, loop_calls,
                   worker_vars, hist_vars, msq_vars, msmap_vars, lock,
                   listener_vars, th_data, th_branch, th_mid, th_load, th_want,
                   th_sends, th_retrieves, mshist_vars>>

\* return self._message_id - 1
SendReturn(t) ==
    /\ th_pc[t] = "ret"
    /\ send_log' = send_log \cup {[t |-> t, data |-> th_data[t], id |-> message_id - 1]}
    /\ th_pc' = [th_pc EXCEPT ![t] = "idle"]
    /\ UNCHANGED <<side_vars, ext_vars, wire_vars, flag_vars, cycle_vars, next_content, logs,
                   gather_vars, hookq_vars, hookt_vars, content_queue, loop_calls,
                   worker_vars, hist_vars, msq_vars, message_id, msmap_vars, lock,
                   listener_vars, th_data, th_branch, th_mid, th_load, th_want,
                   th_sends, th_retrieves, ret_log, tmp_hist, input_hist,
                   tmp_at_init, post_log>>

\* the loop runs the submitted _input_queue.put((data, id))
LoopRunInputPut ==
    /\ LoopIdle
    /\ loop_calls # <<>>
    /\ Head(loop_calls)[1] = "input_put"
    /\ LET msg == <<Head(loop_calls)[2], Head(loop_calls)[3]>> IN
        /\ input_queue' = Append(input_queue, msg)
        /\ input_hist' = Append(input_hist, msg)
    /\ loop_calls' = Tail(loop_calls)
    /\ UNCHANGED <<side_vars, ext_vars, wire_vars, flag_vars, cycle_vars, next_content, logs,
                   gather_vars, hookq_vars, hookt_vars, content_queue, worker_vars,
                   hist_vars, input_set, output_queue, output_set, tmp_queue,
                   message_id, msmap_vars, lock, listener_vars, thread_vars,
                   send_log, ret_log, tmp_hist, tmp_at_init, post_log>>

\* a retrieval that takes the stored result out of the map (pop)
RetrieveCall_consume(t, id) ==
    /\ kind = "Complex"
    /\ th_pc[t] = "idle"
    /\ th_retrieves[t] < MaxRetrieves
    /\ id \in KnownIds
    /\ lock = "free"
    /\ th_retrieves' = [th_retrieves EXCEPT ![t] = @ + 1]
    /\ th_want' = [th_want EXCEPT ![t] = id]
    /\ event_set' = [event_set EXCEPT ![t] = FALSE]
    /\ IF id \in DOMAIN result_to_mID_mapping
         THEN /\ ret_log' = ret_log \cup
                    {[t |-> t, id |-> id, val |-> result_to_mID_mapping[id],
                      waited |-> FALSE]}
              /\ th_pc' = [th_pc EXCEPT ![t] = "idle"]
              /\ result_to_mID_mapping' = MapDel(result_to_mID_mapping, id)
              /\ UNCHANGED needed_output_events
         ELSE /\ needed_output_events' = MapPut(needed_output_events, id, t)
              /\ th_pc' = [th_pc EXCEPT ![t] = "wait"]
              /\ UNCHANGED <<ret_log, result_to_mID_mapping>>
    /\ UNCHANGED <<side_vars, ext_vars, wire_vars, flag_vars, cycle_vars, next_content, logs,
                   gather_vars, hookq_vars, hookt_vars, content_queue, loop_calls,
                   worker_vars, hist_vars, msq_vars, message_id, lock,
                   listener_vars, th_data, th_branch, th_mid, th_load, th_sends,
                   send_log, tmp_hist, input_hist, tmp_at_init, post_log>>

\* retrieve_result(message_id): cur_event = threading.Event();
\* with self._lock: return the stored result, or register cur_event
RetrieveCall(t, id) ==
    /\ kind = "Complex"
    /\ th_pc[t] = "idle"
    /\ th_retrieves[t] < MaxRetrieves
    /\ id \in KnownIds
    /\ lock = "free"
    /\ th_retrieves' = [th_retrieves EXCEPT ![t] = @ + 1]
    /\ th_want' = [th_want EXCEPT ![t] = id]
    /\ event_set' = [event_set EXCEPT ![t] = FALSE]
    /\ IF id \in DOMAIN result_to_mID_mapping
         THEN /\ ret_log' = ret_log \cup
                    {[t |-> t, id |-> id, val |-> result_to_mID_mapping[id],
                      waited |-> FALSE]}
              /\ th_pc' = [th_pc EXCEPT ![t] = "idle"]
              /\ UNCHANGED needed_output_events
         ELSE /\ needed_output_events' = MapPut(needed_output_events, id, t)
              /\ th_pc' = [th_pc EXCEPT ![t] = "wait"]
              /\ UNCHANGED ret_log
    /\ UNCHANGED <<side_vars, ext_vars, wire_vars, flag_vars, cycle_vars, next_content, logs,
                   gather_vars, hookq_vars, hookt_vars, content_queue, loop_calls,
                   worker_vars, hist_vars, msq_vars, message_id,
                   result_to_mID_mapping, lock, listener_vars, th_data, th_branch,
                   th_mid, th_load, th_sends, send_log, tmp_hist, input_hist,
                   tmp_at_init, post_log>>

\* a woken waiter that leaves its entry in the map
retrieve_del_skipped(events, id) == events

\* retrieve_result after the wait: `del self._needed_output_events[message_id]`
retrieve_del(events, id) == MapDel(events, id)

\* cur_event.wait() returns; del _needed_output_events[id]; return the result
RetrieveWake(t) ==
    /\ th_pc[t] = "wait"
    /\ event_set[t]
    /\ IF th_want[t] \in DOMAIN needed_output_events
            /\ th_want[t] \in DOMAIN result_to_mID_mapping
         THEN /\ needed_output_events' = retrieve_del(needed_output_events, th_want[t])
              /\ ret_log' = ret_log \cup
                    {[t |-> t, id |-> th_want[t],
                      val |-> result_to_mID_mapping[th_want[t]],
                      waited |-> TRUE]}
              /\ th_pc' = [th_pc EXCEPT ![t] = "idle"]
         ELSE /\ th_pc' = [th_pc EXCEPT ![t] = "crashed"]
              /\ UNCHANGED <<needed_output_events, ret_log>>
    /\ UNCHANGED <<side_vars, ext_vars, wire_vars, flag_vars, cycle_vars, next_content, logs,
                   gather_vars, hookq_vars, hookt_vars, content_queue, loop_calls,
                   worker_vars, hist_vars, msq_vars, message_id,
                   result_to_mID_mapping, event_set, lock, listener_vars, th_data,
                   th_branch, th_mid, th_load, th_want, th_sends, th_retrieves,
                   send_log, tmp_hist, input_hist, tmp_at_init, post_log>>

\* _serve_provider_results: result, msg_id = await _output_queue.get();
\* with self._lock: store the result, test `msg_id in _needed_output_events`
serve_store(m, id, res) == MapPut(m, id, res)

ListenerStore ==
    /\ listener_pc = "get"
    /\ lock = "free"
    /\ output_queue # <<>>
    /\ LET res == Head(output_queue)[1]
           id == Head(output_queue)[2] IN
        /\ result_to_mID_mapping' = serve_store(result_to_mID_mapping, id, res)
        /\ listener_msg_id' = id
        /\ IF id \in DOMAIN needed_output_events
             THEN listener_pc' = "set" /\ lock' = "listener"
             ELSE listener_pc' = "get" /\ lock' = "free"
    /\ output_queue' = Tail(output_queue)
    /\ UNCHANGED <<side_vars, ext_vars, wire_vars, flag_vars, cycle_vars, next_content, logs,
                   gather_vars, hookq_vars, hookt_vars, content_queue, loop_calls,
                   worker_vars, hist_vars, input_queue, input_set, output_set,
                   tmp_queue, message_id, needed_output_events, event_set,
                   thread_vars, mshist_vars>>

\* a listener that sets every registered event, whatever id it serves
serve_wake_all(id) == {needed_output_events[k] : k \in DOMAIN needed_output_events}

\* a listener that stores the result and wakes nobody
serve_wake_none(id) == {}

\* events that _needed_output_events[msg_id].set() sets
serve_wake(id) == {needed_output_events[id]}

\* still under the lock: _needed_output_events[msg_id].set()
ListenerSet ==
    /\ listener_pc = "set"
    /\ IF listener_msg_id \in DOMAIN needed_output_events
         THEN /\ event_set' = [t \in Threads |->
                                event_set[t] \/ t \in serve_wake(listener_msg_id)]
              /\ listener_pc' = "get"
         ELSE /\ listener_pc' = "crashed"
              /\ UNCHANGED event_set
    /\ lock' = "free"
    /\ UNCHANGED <<side_vars, ext_vars, wire_vars, flag_vars, cycle_vars, next_content, logs,
                   gather_vars, hookq_vars, hookt_vars, content_queue, loop_calls,
                   worker_vars, hist_vars, msq_vars, message_id,
                   result_to_mID_mapping, needed_output_events, listener_msg_id,
                   thread_vars, mshist_vars>>

\* ------------------------------------------------ ComplexContentProvider
\* cycle: async with self: __aenter__, then MessageSystem.initialize() up to
\* `with self._lock`
ComplexEnter ==
    /\ kind = "Complex"
    /\ prov_pc \in {"new", "started"}
    /\ lock = "free"
    /\ aenter
    /\ output_set' = TRUE
    /\ output_queue' = <<>>
    /\ input_queue' = <<>>
    /\ lock' = "init"
    /\ tmp_at_init' = tmp_queue
    /\ prov_pc' = "init_drain"
    /\ UNCHANGED <<side_vars, ext_vars, prov_content, prov_msg_id, next_content, logs,
                   gather_vars, hookq_vars, hook_target, content_queue, loop_calls,
                   worker_vars, hist_vars, input_set, tmp_queue, message_id,
                   msmap_vars, listener_vars, thread_vars, send_log, ret_log,
                   tmp_hist, input_hist, post_log>>

\* a drain that takes the newest buffered message first
drain_step_lifo(inq, tmpq) ==
    <<Append(inq, tmpq[Len(tmpq)]), SubSeq(tmpq, 1, Len(tmpq) - 1)>>

\* one turn of initialize's loop on (input_queue, _tmp_queue):
\* msg = self._tmp_queue.get(); input_queue.put_nowait(msg)
drain_step(inq, tmpq) == <<Append(inq, Head(tmpq)), Tail(tmpq)>>

\* initialize: while not _tmp_queue.empty(): move one message
InitDrainOne ==
    /\ prov_pc = "init_drain"
    /\ tmp_queue # <<>>
    /\ input_queue' = drain_step(input_queue, tmp_queue)[1]
    /\ tmp_queue' = drain_step(input_queue, tmp_queue)[2]
    /\ input_hist' = input_hist \o
                       SubSeq(drain_step(input_queue, tmp_queue)[1],
                              Len(input_queue) + 1, Len(input_queue) + 1)
    /\ UNCHANGED <<side_vars, ext_vars, wire_vars, flag_vars, cycle_vars, next_content, logs,
                   gather_vars, hookq_vars, hookt_vars, content_queue, loop_calls,
                   worker_vars, hist_vars, input_set, output_queue, output_set,
                   message_id, msmap_vars, lock, listener_vars, thread_vars,
                   send_log, ret_log, tmp_hist, tmp_at_init, post_log>>

\* initialize: the buffer is empty: self._input_queue = input_queue, release
\* the lock, create the listener task
InitFinish ==
    /\ prov_pc = "init_drain"
    /\ tmp_queue = <<>>
    /\ input_set' = TRUE
    /\ lock' = "free"
    /\ listener_pc' = "get"
    /\ prov_pc' = "in_get"
    /\ UNCHANGED <<side_vars, ext_vars, wire_vars, flag_vars, prov_content, prov_msg_id,
                   next_content, logs, gather_vars, hookq_vars, hookt_vars,
                   content_queue, loop_calls, worker_vars, hist_vars, input_queue,
                   output_queue, output_set, tmp_queue, message_id, msmap_vars,
                   listener_msg_id, thread_vars, mshist_vars>>

\* cycle: content, msg_id = await _input_queue.get(); preprocess_data;
\* _notify_all_hooks(content); _run_result_callback() up to its gather
ComplexGet ==
    /\ kind = "Complex"
    /\ LoopIdle
    /\ prov_pc = "in_get"
    /\ asyncio_running
    /\ input_queue # <<>>
    /\ prov_content' = Head(input_queue)[1]
    /\ prov_msg_id' = Head(input_queue)[2]
    /\ input_queue' = Tail(input_queue)
    /\ straight_queue' = notify_all_hooks(Head(input_queue)[1])
    /\ fed' = Append(fed, Head(input_queue)[1])
    /\ start_gather
    /\ prov_pc' = "gather"
    /\ UNCHANGED <<side_vars, ext_vars, wire_vars, flag_vars, next_content, logs,
                   callback_queue, hookt_vars, content_queue, loop_calls,
                   worker_vars, agg_log, input_set, output_queue, output_set,
                   tmp_queue, message_id, msmap_vars, lock, listener_vars,
                   thread_vars, mshist_vars>>

\* cycle: result gathered; postprocess_result; _output_queue.put((result, msg_id))
ComplexPost ==
    /\ kind = "Complex"
    /\ LoopIdle
    /\ prov_pc = "gather"
    /\ gather_complete
    /\ output_queue' = Append(output_queue, <<gather_results, prov_msg_id>>)
    /\ agg_log' = Append(agg_log, gather_results)
    /\ post_log' = post_log \cup {<<gather_results, prov_msg_id>>}
    /\ gather_active' = FALSE
    /\ gather_queues' = <<>>
    /\ gather_results' = <<>>
    /\ prov_pc' = "in_get"
    /\ UNCHANGED <<side_vars, ext_vars, wire_vars, flag_vars, prov_content, prov_msg_id,
                   next_content, logs, hookq_vars, hookt_vars, content_queue,
                   loop_calls, worker_vars, fed, input_queue, input_set, output_set,
                   tmp_queue, message_id, msmap_vars, lock, listener_vars,
                   thread_vars, send_log, ret_log, tmp_hist,
                   input_hist, tmp_at_init>>

\* ------------------------------------------------ add_hook while running
\* _start_hook's three statements for hook h, run on the provider's loop:
\* both queue lists get h's queue and a cycle_call task is created on h
\* (a second task when h already has one).
start_hook(h) ==
    /\ asyncio_straight_queues' = start_hook_queues(asyncio_straight_queues, h)
    /\ asyncio_callback_queues' = start_hook_queues(asyncio_callback_queues, h)
    /\ IF hook_pc[h] = "new"
         THEN /\ hook_pc' = [hook_pc EXCEPT ![h] = "get"]
              /\ UNCHANGED dup_pc
         ELSE /\ dup_pc' = [dup_pc EXCEPT ![h] = "get"]
              /\ UNCHANGED hook_pc

\* add_hook called on the loop thread of a running provider whose loop is
\* bound: append, then _start_hook wires the hook at once.
AddHookRunning ==
    /\ LoopIdle
    /\ kind # "Complex"
    /\ asyncio_running
    /\ asyncio_loop
    /\ Len(asynio_hooks) < MaxHooks
    /\ LET h == Len(asynio_hooks) + 1 IN
        /\ asynio_hooks' = Append(asynio_hooks, h)
        /\ start_hook(h)
        /\ add_returned' = add_returned \cup {h}
    /\ UNCHANGED <<side_vars, far_vars, flag_vars, cycle_vars, next_content, logs, gather_vars,
                   hookq_vars, hook_target, content_queue, loop_calls, worker_vars,
                   hist_vars, ms_vars, adder_pc, adder_hook, dup_target, add_raised>>

\* add_hook called on the loop thread after start() and before the cycle task
\* entered __aenter__: _asyncio_running is set, _asyncio_loop is None, so
\* _start_hook takes the run_coroutine_threadsafe(_coro(), None) branch, which
\* raises; the hook stays in the hook list.
AddHookUnbound ==
    /\ LoopIdle
    /\ kind # "Complex"
    /\ asyncio_running
    /\ ~asyncio_loop
    /\ Len(asynio_hooks) < MaxHooks
    /\ LET h == Len(asynio_hooks) + 1 IN
        /\ asynio_hooks' = Append(asynio_hooks, h)
        /\ add_raised' = add_raised \cup {h}
    /\ UNCHANGED <<side_vars, far_vars, asyncio_straight_queues, asyncio_callback_queues,
                   flag_vars, cycle_vars, next_content, logs, gather_vars,
                   hookq_vars, hookt_vars, content_queue, loop_calls, worker_vars,
                   hist_vars, ms_vars, adder_pc, adder_hook, dup_pc, dup_target,
                   add_returned>>

\* foreign thread, add_hook: self._asynio_hooks.append(hook)
ForeignAppend ==
    /\ kind # "Complex"
    /\ adder_pc = "idle"
    /\ Len(asynio_hooks) < MaxHooks
    /\ asynio_hooks' = Append(asynio_hooks, Len(asynio_hooks) + 1)
    /\ adder_hook' = Len(asynio_hooks) + 1
    /\ adder_pc' = "appended"
    /\ UNCHANGED <<side_vars, far_vars, asyncio_straight_queues, asyncio_callback_queues,
                   flag_vars, cycle_vars, next_content, logs, gather_vars,
                   hookq_vars, hookt_vars, content_queue, loop_calls, worker_vars,
                   hist_vars, ms_vars, dup_pc, dup_target, add_returned, add_raised>>

\* foreign thread, add_hook: if self._asyncio_running (else return)
ForeignCheckRunning ==
    /\ adder_pc = "appended"
    /\ adder_pc' = IF asyncio_running THEN "checked" ELSE "idle"
    /\ UNCHANGED <<side_vars, far_vars, wire_vars, flag_vars, cycle_vars, next_content, logs,
                   gather_vars, hookq_vars, hookt_vars, content_queue, loop_calls,
                   worker_vars, hist_vars, ms_vars, adder_hook, dup_pc, dup_target,
                   add_returned, add_raised>>

\* foreign thread, _start_hook: the loops differ, so
\* run_coroutine_threadsafe(_coro(), self._asyncio_loop) and return; raises
\* when _asyncio_loop is still None.
ForeignSchedule ==
    /\ adder_pc = "checked"
    /\ adder_pc' = "idle"
    /\ IF asyncio_loop
         THEN /\ loop_calls' = Append(loop_calls, <<"wire", adder_hook, NoVal>>)
              /\ add_returned' = add_returned \cup {adder_hook}
              /\ UNCHANGED add_raised
         ELSE /\ add_raised' = add_raised \cup {adder_hook}
              /\ UNCHANGED <<loop_calls, add_returned>>
    /\ UNCHANGED <<side_vars, far_vars, wire_vars, flag_vars, cycle_vars, next_content, logs,
                   gather_vars, hookq_vars, hookt_vars, content_queue, worker_vars,
                   hist_vars, ms_vars, adder_hook, dup_pc, dup_target>>

\* the loop runs the _coro() submitted by the foreign thread
LoopRunWire ==
    /\ LoopIdle
    /\ loop_calls # <<>>
    /\ Head(loop_calls)[1] = "wire"
    /\ start_hook(Head(loop_calls)[2])
    /\ loop_calls' = Tail(loop_calls)
    /\ UNCHANGED <<side_vars, far_vars, asynio_hooks, flag_vars, cycle_vars, next_content, logs,
                   gather_vars, hookq_vars, hook_target, content_queue, worker_vars,
                   hist_vars, ms_vars, adder_pc, adder_hook, dup_target,
                   add_returned, add_raised>>

\* the second cycle_call task of a hook wired twice: await queue.get()
DupGet(h) ==
    /\ LoopIdle
    /\ dup_pc[h] = "get"
    /\ straight_queue[h] # <<>>
    /\ dup_target' = [dup_target EXCEPT ![h] = Head(straight_queue[h])]
    /\ straight_queue' = [straight_queue EXCEPT ![h] = Tail(@)]
    /\ dup_pc' = [dup_pc EXCEPT ![h] = "action"]
    /\ UNCHANGED <<side_vars, far_vars, wire_vars, flag_vars, cycle_vars, next_content, logs,
                   gather_vars, callback_queue, hookt_vars, content_queue,
                   loop_calls, worker_vars, hist_vars, ms_vars, adder_pc,
                   adder_hook, add_returned, add_raised>>

\* the second cycle_call task: hook_action, put_nowait on the outbound queue
DupEmit(h) ==
    /\ LoopIdle
    /\ dup_pc[h] = "action"
    /\ callback_queue' = [callback_queue EXCEPT
                            ![h] = Append(@, hook_action(h, dup_target[h]))]
    /\ dup_pc' = [dup_pc EXCEPT ![h] = "get"]
    /\ dup_target' = [dup_target EXCEPT ![h] = NoVal]
    /\ UNCHANGED <<side_vars, far_vars, wire_vars, flag_vars, cycle_vars, next_content, logs,
                   gather_vars, straight_queue, hookt_vars, content_queue,
                   loop_calls, worker_vars, hist_vars, ms_vars, adder_pc,
                   adder_hook, add_returned, add_raised>>

\* ------------------------------------------------ a hook on its own
\* A hook driven directly through its two queues, outside any provider
\* (hook 1 of HookIds); queue instances are told apart.

\* a getter that makes a new queue on every call
get_queue_fresh(field, fresh) == fresh

\* get_straight_queue / get_callback_queue on a field: create the queue if
\* the field is None; the result is both the field's value and the returned
\* instance.
get_queue(field, fresh) == IF field = NoQueue THEN fresh ELSE field

\* the getter creates no instance, or one can still be created
CanGet(field) == get_queue(field, queues_made + 1) \in QueueIds

made_after(field, q) == IF q = field THEN queues_made ELSE queues_made + 1

\* the user calls hook.get_straight_queue()
GetStraightQueue ==
    /\ getter_calls < MaxGetterCalls
    /\ CanGet(lone_asyncio_queue)
    /\ LET q == get_queue(lone_asyncio_queue, queues_made + 1) IN
        /\ lone_asyncio_queue' = q
        /\ queues_made' = made_after(lone_asyncio_queue, q)
        /\ got_straight' = got_straight \cup {q}
    /\ getter_calls' = getter_calls + 1
    /\ UNCHANGED <<side_vars, core_vars, dyn_vars, sys_vars, fleet_vars, cmd_vars, lone_callback_queue,
                   queue_items, lone_pc, lone_wait, lone_target, got_callback,
                   lone_put, lone_emitted, lone_out>>

\* the user calls hook.get_callback_queue()
GetCallbackQueue ==
    /\ getter_calls < MaxGetterCalls
    /\ CanGet(lone_callback_queue)
    /\ LET q == get_queue(lone_callback_queue, queues_made + 1) IN
        /\ lone_callback_queue' = q
        /\ queues_made' = made_after(lone_callback_queue, q)
        /\ got_callback' = got_callback \cup {q}
    /\ getter_calls' = getter_calls + 1
    /\ UNCHANGED <<side_vars, core_vars, dyn_vars, sys_vars, fleet_vars, cmd_vars, lone_asyncio_queue,
                   queue_items, lone_pc, lone_wait, lone_target, got_straight,
                   lone_put, lone_emitted, lone_out>>

\* the cycle_call task starts: target = await self.get_straight_queue().get()
\* suspends on the instance the getter returned
LoneStart ==
    /\ lone_pc = "new"
    /\ CanGet(lone_asyncio_queue)
    /\ LET q == get_queue(lone_asyncio_queue, queues_made + 1) IN
        /\ lone_asyncio_queue' = q
        /\ queues_made' = made_after(lone_asyncio_queue, q)
        /\ got_straight' = got_straight \cup {q}
        /\ lone_wait' = q
    /\ lone_pc' = "get"
    /\ UNCHANGED <<side_vars, core_vars, dyn_vars, sys_vars, fleet_vars, cmd_vars, lone_callback_queue,
                   queue_items, lone_target, getter_calls, got_callback, lone_put,
                   lone_emitted, lone_out>>

\* the user puts the next item on an inbound instance it was given:
\* in_queue.put_nowait(k)
LonePut(q) ==
    /\ q \in got_straight
    /\ Len(lone_put) < MaxItems
    /\ queue_items' = [queue_items EXCEPT ![q] = Append(@, Len(lone_put))]
    /\ lone_put' = Append(lone_put, Len(lone_put))
    /\ UNCHANGED <<side_vars, core_vars, dyn_vars, sys_vars, fleet_vars, cmd_vars, lone_asyncio_queue,
                   lone_callback_queue, queues_made, lone_pc, lone_wait,
                   lone_target, getter_calls, got_straight, got_callback,
                   lone_emitted, lone_out>>

\* a get() that takes the newest item of the queue
queue_get_last(items) == <<items[Len(items)], SubSeq(items, 1, Len(items) - 1)>>

\* asyncio.Queue.get() on a non-empty queue: the oldest item, and the rest
queue_get(items) == <<Head(items), Tail(items)>>

\* cycle_call: the awaited get() returns
LoneHookGet ==
    /\ lone_pc = "get"
    /\ queue_items[lone_wait] # <<>>
    /\ lone_target' = queue_get(queue_items[lone_wait])[1]
    /\ queue_items' = [queue_items EXCEPT ![lone_wait] = queue_get(@)[2]]
    /\ lone_pc' = "action"
    /\ UNCHANGED <<side_vars, core_vars, dyn_vars, sys_vars, fleet_vars, cmd_vars, lone_asyncio_queue,
                   lone_callback_queue, queues_made, lone_wait, getter_calls,
                   got_straight, got_callback, lone_put, lone_emitted, lone_out>>

\* cycle_call: result = await hook_action(target);
\* self.get_callback_queue().put_nowait(result); next turn of the loop up to
\* its await self.get_straight_queue().get()
LoneHookEmit ==
    /\ lone_pc = "action"
    /\ CanGet(lone_callback_queue)
    /\ LET c == get_queue(lone_callback_queue, queues_made + 1)
           made == made_after(lone_callback_queue, c)
           q == get_queue(lone_asyncio_queue, made + 1) IN
        /\ q \in QueueIds
        /\ lone_callback_queue' = c
        /\ got_callback' = got_callback \cup {c}
        /\ queue_items' = [queue_items EXCEPT
                             ![c] = Append(@, hook_action(1, lone_target))]
        /\ lone_emitted' = Append(lone_emitted, hook_action(1, lone_target))
        /\ lone_asyncio_queue' = q
        /\ got_straight' = got_straight \cup {q}
        /\ lone_wait' = q
        /\ queues_made' = IF q = lone_asyncio_queue THEN made ELSE made + 1
    /\ lone_target' = NoVal
    /\ lone_pc' = "get"
    /\ UNCHANGED <<side_vars, core_vars, dyn_vars, sys_vars, fleet_vars, cmd_vars, getter_calls, lone_put,
                   lone_out>>

\* the user reads an outbound instance it was given: await out_queue.get()
LoneRead(q) ==
    /\ q \in got_callback
    /\ queue_items[q] # <<>>
    /\ lone_out' = Append(lone_out, queue_get(queue_items[q])[1])
    /\ queue_items' = [queue_items EXCEPT ![q] = queue_get(@)[2]]
    /\ UNCHANGED <<side_vars, core_vars, dyn_vars, sys_vars, fleet_vars, cmd_vars, lone_asyncio_queue,
                   lone_callback_queue, queues_made, lone_pc, lone_wait,
                   lone_target, getter_calls, got_straight, got_callback,
                   lone_put, lone_emitted>>

\* ------------------------------------------------ PHFSystem
\* The orchestrator with its input sources; a provider is seen through the
\* start() calls made on it.

\* an add_provider that starts the provider whatever the running state
add_provider_start_always(running, n) == n + 1

\* add_provider: start() calls on the provider after the call, n before it:
\* started only when the system is running
add_provider_start(running, n) == IF running THEN n + 1 ELSE n

\* the program registers a provider before start(): add_provider
AddProvider ==
    /\ sys_pc = "new"
    /\ Len(providers) < MaxProviders
    /\ LET p == Len(providers) + 1 IN
        /\ providers' = Append(providers, p)
        /\ provider_started' = [provider_started EXCEPT
                                  ![p] = add_provider_start(running_state, @)]
    /\ UNCHANGED <<side_vars, core_vars, dyn_vars, lone_vars, fleet_vars, cmd_vars, running_state, sys_pc,
                   command_queue, result_queue, result_getters, src_pc, src_cmd,
                   commands, applied, handed, received, failed>>

\* _start_main_coroutine: `for provider in self._providers:
\* self._run_content_provider(provider)`
launch_starts(ps, started) ==
    [p \in ProviderIds |->
        started[p] + Cardinality({i \in 1..Len(ps) : ps[i] = p})]

\* _start_main_coroutine up to its first `await self._get_command(...)`:
\* running flag, fresh queues, every input source started, every registered
\* provider started
Launch ==
    /\ sys_pc = "new"
    /\ running_state' = TRUE
    /\ command_queue' = <<>>
    /\ result_queue' = <<>>
    /\ src_pc' = [i \in Sources |-> "start"]
    /\ provider_started' = launch_starts(providers, provider_started)
    /\ sys_pc' = "get"
    /\ UNCHANGED <<side_vars, core_vars, dyn_vars, lone_vars, fleet_vars, cmd_vars, providers,
                   result_getters, src_cmd, commands, applied, handed, received,
                   failed>>

\* the scheduler thread is free for the input sources' tasks
SysIdle == sys_pc \in {"get", "crashed"}

\* AbstractCommandInput._cycle starts: await retrieve_command_from_source()
SourceBegin(i) ==
    /\ SysIdle
    /\ src_pc[i] = "start"
    /\ src_pc' = [src_pc EXCEPT ![i] = "retrieve"]
    /\ UNCHANGED <<side_vars, core_vars, dyn_vars, lone_vars, fleet_vars, cmd_vars, running_state,
                   providers, provider_started, sys_pc, command_queue, result_queue,
                   result_getters, src_cmd, commands, applied, handed, received,
                   failed>>

\* new_provider commands that were created and not applied yet
PendingNew ==
    Cardinality({j \in 1..Len(command_queue) :
                    commands[command_queue[j][1]].kind = "new_provider"})

\* _cycle: the command data arrived; form_command;
\* _asyncio_command_queue.put_nowait((new_command, self));
\* result = await self._asyncio_result_queue.get(): a queued result is taken
\* at once, otherwise the source suspends as a getter
SourceSubmit(i, k) ==
    /\ SysIdle
    /\ src_pc[i] = "retrieve"
    /\ Len(commands) < MaxCommands
    /\ k = "new_provider" => Len(providers) + PendingNew < MaxProviders
    /\ LET c == Len(commands) + 1 IN
        /\ commands' = Append(commands, [kind |-> k, source |-> i])
        /\ command_queue' = Append(command_queue, <<c, i>>)
        /\ IF result_queue # <<>>
             THEN /\ received' = received \cup
                        {[source |-> i, for |-> c, cmd |-> Head(result_queue)[1],
                          val |-> Head(result_queue)[2]]}
                  /\ result_queue' = Tail(result_queue)
                  /\ UNCHANGED <<result_getters, src_pc>>
                  /\ src_cmd' = [src_cmd EXCEPT ![i] = NoVal]
             ELSE /\ result_getters' = Append(result_getters, i)
                  /\ src_pc' = [src_pc EXCEPT ![i] = "wait"]
                  /\ src_cmd' = [src_cmd EXCEPT ![i] = c]
                  /\ UNCHANGED <<received, result_queue>>
    /\ UNCHANGED <<side_vars, core_vars, dyn_vars, lone_vars, fleet_vars, cmd_vars, running_state,
                   providers, provider_started, sys_pc, applied, handed, failed>>

\* _cycle: the source, woken as a getter of result_queue, runs: get() takes
\* the oldest result, or suspends again when the queue is empty by now
SourceResume(i) ==
    /\ SysIdle
    /\ src_pc[i] = "woken"
    /\ IF result_queue # <<>>
         THEN /\ received' = received \cup
                    {[source |-> i, for |-> src_cmd[i], cmd |-> Head(result_queue)[1],
                      val |-> Head(result_queue)[2]]}
              /\ result_queue' = Tail(result_queue)
              /\ src_pc' = [src_pc EXCEPT ![i] = "retrieve"]
              /\ src_cmd' = [src_cmd EXCEPT ![i] = NoVal]
              /\ UNCHANGED result_getters
         ELSE /\ result_getters' = Append(result_getters, i)
              /\ src_pc' = [src_pc EXCEPT ![i] = "wait"]
              /\ UNCHANGED <<received, result_queue, src_cmd>>
    /\ UNCHANGED <<side_vars, core_vars, dyn_vars, lone_vars, fleet_vars, cmd_vars, running_state,
                   providers, provider_started, sys_pc, command_queue, commands,
                   applied, handed, failed>>

\* a consumer that takes the newest queued command
get_command_newest(q) == <<q[Len(q)], SubSeq(q, 1, Len(q) - 1)>>

\* _get_command: command_queue.get() on a non-empty queue
get_command(q) == <<Head(q), Tail(q)>>

\* Command.execute_command on the system: the value _apply returns
apply_value(k) ==
    IF k = "new_provider" THEN Len(providers) + 1 ELSE Len(providers)

\* one turn of the consumer loop: take a command, execute it, hand the result
\* to its evoker (set_command_result: put_nowait on the result queue, which
\* wakes the oldest getter).  The loop goes on without suspending while
\* commands are queued.  A command whose _apply raises ends the coroutine;
\* asyncio.run then cancels the sources' tasks.
SysApply ==
    /\ sys_pc \in {"get", "busy"}
    /\ command_queue # <<>>
    /\ LET c == get_command(command_queue)[1][1]
           evoker == get_command(command_queue)[1][2]
           rest == get_command(command_queue)[2]
           k == commands[c].kind IN
        /\ command_queue' = rest
        /\ IF k = "bad"
             THEN /\ sys_pc' = "crashed"
                  /\ failed' = c
                  /\ src_pc' = [i \in Sources |-> "cancelled"]
                  /\ result_getters' = <<>>
                  /\ UNCHANGED <<providers, provider_started, result_queue,
                                 applied, handed>>
             ELSE /\ IF k = "new_provider"
                       THEN /\ providers' = Append(providers, Len(providers) + 1)
                            /\ provider_started' = [provider_started EXCEPT
                                   ![Len(providers) + 1] =
                                        add_provider_start(running_state, @)]
                       ELSE UNCHANGED <<providers, provider_started>>
                  /\ applied' = Append(applied, c)
                  /\ result_queue' = Append(result_queue, <<c, apply_value(k)>>)
                  /\ handed' = Append(handed, <<c, evoker>>)
                  /\ IF result_getters # <<>>
                       THEN /\ src_pc' = [src_pc EXCEPT ![Head(result_getters)] = "woken"]
                            /\ result_getters' = Tail(result_getters)
                       ELSE UNCHANGED <<src_pc, result_getters>>
                  /\ sys_pc' = IF rest = <<>> THEN "get" ELSE "busy"
                  /\ UNCHANGED failed
    /\ UNCHANGED <<side_vars, core_vars, dyn_vars, lone_vars, fleet_vars, cmd_vars, running_state, src_cmd,
                   commands, received>>

\* ------------------------------------------------ provider lifecycle
\* Several providers on one scheduler, each with its own hooks, followed
\* through start(), stop(), the exits of `async with self` and the failures
\* of the user's coroutines.  An item is the number of the get_content call
\* that produced it, and a hook's output is the item itself.  A provider's
\* hooks are attached before start(); start() is called again only on a
\* provider without hooks whose previous cycle task is done.  Providers are
\* constructed in the order of their numbers and, like their hooks, before
\* the first start().  The bounds MaxHooks, MaxRounds, MaxStarts, MaxStops and
\* MaxFailures limit the hooks, the acquired items, the start() and stop()
\* calls and the raised exceptions of all providers together.

FleetHooks == ProviderIds \X HookIds

\* the sum of a per-provider counter that stays within 0..max
Total(f, max) == Cardinality({x \in ProviderIds \X (1..max) : x[2] <= f[x[1]]})

\* no provider was started yet
NoneStarted == \A q \in ProviderIds : asyncio_task[q] = "None"

\* the hooks in p's _asynio_hooks
Attached(p) == {h \in FleetHooks : h[1] = p /\ h[2] <= hook_count[p]}

\* the cycle task of p is done
TaskDone(p) == asyncio_task[p] \in {"returned", "raised", "cancelled"}

\* the cycle task of p is inside `async with self`
TaskInside(p) == asyncio_task[p] \in {"get", "gather", "callback", "sleep", "wait"}

\* __new__ of a provider class: _is_with_callback is set when the class
\* overrides result_callback, and always for a ComplexContentProvider
FleetNew(p, k, cb) ==
    /\ fleet_kind[p] = "None"
    /\ NoneStarted
    /\ \A q \in ProviderIds : q < p => fleet_kind[q] # "None"
    /\ k = "Complex" => cb
    /\ fleet_kind' = [fleet_kind EXCEPT ![p] = k]
    /\ is_with_callback' = [is_with_callback EXCEPT ![p] = cb]
    /\ UNCHANGED <<nonfleet_vars, fbound_vars,
                   hook_count, task_vars, fhook_vars, flog_vars, fworker_vars,
                   fms_vars>>

\* add_hook before start(): `self._asynio_hooks.append(hook)`
FleetAddHook(p) ==
    /\ fleet_kind[p] # "None"
    /\ NoneStarted
    /\ Total(hook_count, MaxHooks) < MaxHooks
    /\ hook_count' = [hook_count EXCEPT ![p] = @ + 1]
    /\ UNCHANGED <<nonfleet_vars, fbound_vars,
                   fleet_kind, is_with_callback, task_vars, fhook_vars, flog_vars,
                   fworker_vars, fms_vars>>

\* start(): `self._asyncio_running = True;
\* self._asyncio_task = asyncio.create_task(self.cycle())`
FleetStart(p) ==
    /\ fleet_kind[p] # "None"
    /\ Total(start_calls, MaxStarts) < MaxStarts
    /\ \/ asyncio_task[p] = "None"
       \/ /\ TaskDone(p)
          /\ hook_count[p] = 0
          /\ thread_pc[p] \in {"None", "dead", "ended"}
    /\ is_running' = [is_running EXCEPT ![p] = TRUE]
    /\ asyncio_task' = [asyncio_task EXCEPT ![p] = "pending"]
    /\ must_cancel' = [must_cancel EXCEPT ![p] = FALSE]
    /\ start_calls' = [start_calls EXCEPT ![p] = @ + 1]
    /\ UNCHANGED <<nonfleet_vars, fbound_vars,
                   config_vars, contents, fhook_vars, flog_vars, fworker_vars,
                   fms_vars>>

\* stop(): `if self._asyncio_task is not None: self._asyncio_task.cancel()`;
\* Task.cancel() on a task that is not done asks for a CancelledError to be
\* thrown into the coroutine at the task's next step
FleetStop(p) ==
    /\ asyncio_task[p] # "None"
    /\ ~TaskDone(p)
    /\ ~must_cancel[p]
    /\ stop_calls < MaxStops
    /\ stop_calls' = stop_calls + 1
    /\ must_cancel' = [must_cancel EXCEPT ![p] = TRUE]
    /\ UNCHANGED <<nonfleet_vars, failures,
                   config_vars, asyncio_task, is_running, start_calls, contents,
                   fhook_vars, flog_vars, fworker_vars, fms_vars>>

\* an __aexit__ that stops the hooks whatever the exception
aexit_stops_hooks_always(exc) == TRUE

\* __aexit__: `if exc_type is asyncio.CancelledError: for hook in
\* self._asynio_hooks: hook.stop(); return True`
aexit_stops_hooks(exc) == exc = "CancelledError"

\* hook.stop() on every attached hook
stop_hooks(p, stopped) ==
    [h \in FleetHooks |-> IF h \in Attached(p) THEN TRUE ELSE stopped[h]]

\* __aexit__(exc): `self._asyncio_running = False`, the hooks are stopped and
\* the exception is swallowed on cancellation only
aexit(p, exc) ==
    /\ is_running' = [is_running EXCEPT ![p] = FALSE]
    /\ hook_stopped' = IF aexit_stops_hooks(exc) THEN stop_hooks(p, hook_stopped)
                                                 ELSE hook_stopped
    /\ asyncio_task' = [asyncio_task EXCEPT
                          ![p] = IF exc = "CancelledError" THEN "returned" ELSE "raised"]

\* the next step of a task whose cancellation was requested: the
\* CancelledError is thrown into the coroutine.  A coroutine that has not
\* run yet ends there, before `async with self` is entered; otherwise the
\* error leaves the `async with` block through __aexit__
FleetCancel(p) ==
    /\ must_cancel[p]
    /\ asyncio_task[p] = "pending" \/ TaskInside(p)
    /\ must_cancel' = [must_cancel EXCEPT ![p] = FALSE]
    /\ IF asyncio_task[p] = "pending"
         THEN /\ asyncio_task' = [asyncio_task EXCEPT ![p] = "cancelled"]
              /\ UNCHANGED <<is_running, hook_stopped>>
         ELSE aexit(p, "CancelledError")
    /\ UNCHANGED <<nonfleet_vars, fbound_vars,
                   config_vars, start_calls, contents, hook_tasks, hook_inbound,
                   hook_held, hook_outbound, flog_vars, fworker_vars, fms_vars>>

\* _start_hook for every attached hook: its cycle_call task is created
start_hooks(p, tasks) ==
    [h \in FleetHooks |-> IF h \in Attached(p) THEN "idle" ELSE tasks[h]]

\* the first step of the cycle task: __aenter__ (loop bound, running flag,
\* _start_hook for every hook); a Blocking provider makes its _content_queue
\* and starts its worker thread; a Complex provider runs
\* MessageSystem.initialize(), which makes the two queues and creates a
\* listener task; the task then suspends in its first await
FleetEnter(p) ==
    /\ asyncio_task[p] = "pending"
    /\ ~must_cancel[p]
    /\ is_running' = [is_running EXCEPT ![p] = TRUE]
    /\ hook_tasks' = start_hooks(p, hook_tasks)
    /\ asyncio_task' = [asyncio_task EXCEPT
                          ![p] = IF fleet_kind[p] = "Periodic" THEN "get" ELSE "wait"]
    /\ IF fleet_kind[p] = "Blocking"
         THEN /\ handoff' = [handoff EXCEPT ![p] = <<>>]
              /\ thread_pc' = [thread_pc EXCEPT ![p] = "running"]
         ELSE UNCHANGED <<handoff, thread_pc>>
    /\ IF fleet_kind[p] = "Complex"
         THEN /\ initialize_calls' = [initialize_calls EXCEPT ![p] = @ + 1]
              /\ queues_handed' = [queues_handed EXCEPT ![p] = @ + 1]
              /\ listener_tasks' = [listener_tasks EXCEPT ![p] = @ + 1]
         ELSE UNCHANGED fms_vars
    /\ UNCHANGED <<nonfleet_vars, fbound_vars,
                   config_vars, must_cancel, start_calls, contents, hook_stopped,
                   hook_inbound, hook_held, hook_outbound, flog_vars, thread_calls,
                   thread_gather>>

\* _notify_all_hooks(data): put_nowait on every hook's inbound queue
notify(p, inbound, data) ==
    [h \in FleetHooks |-> IF h \in Attached(p) THEN Append(inbound[h], data)
                                                ELSE inbound[h]]

\* an emptying that stops after the first queue
drain_first(p, outbound) ==
    [h \in FleetHooks |-> IF h \in Attached(p) /\ h[2] = 1 THEN <<>> ELSE outbound[h]]

\* _run_result_callback without aggregation: `for queue in
\* self._asyncio_callback_queues: while not queue.empty(): await queue.get()`;
\* get() on a queue that is not empty returns without suspending
drain(p, outbound) ==
    [h \in FleetHooks |-> IF h \in Attached(p) THEN <<>> ELSE outbound[h]]

\* a gather that is satisfied by the hooks whose task has not failed
gather_ready_live(p) ==
    \A h \in Attached(p) : hook_tasks[h] = "raised" \/ hook_outbound[h] # <<>>

\* asyncio.gather(*[queue.get() ...]) completes when every getter has an item
gather_ready(p) == \A h \in Attached(p) : hook_outbound[h] # <<>>

\* the getters of a completed gather each took the oldest item of their queue
gather_take(p, outbound) ==
    [h \in FleetHooks |-> IF h \in Attached(p) /\ outbound[h] # <<>>
                            THEN Tail(outbound[h]) ELSE outbound[h]]

\* PeriodicContentProvider.cycle: get_content returned; _notify_all_hooks;
\* _run_result_callback either suspends in its gather or empties the
\* outbound queues and the task goes on into result_callback
FleetGetContent(p) ==
    /\ fleet_kind[p] = "Periodic"
    /\ asyncio_task[p] = "get"
    /\ ~must_cancel[p]
    /\ Total(contents, MaxRounds) < MaxRounds
    /\ contents' = [contents EXCEPT ![p] = @ + 1]
    /\ hook_inbound' = notify(p, hook_inbound, contents[p] + 1)
    /\ notified' = [notified EXCEPT ![p] = Append(@, contents[p] + 1)]
    /\ IF is_with_callback[p]
         THEN /\ asyncio_task' = [asyncio_task EXCEPT ![p] = "gather"]
              /\ UNCHANGED <<hook_outbound, aggregated>>
         ELSE /\ hook_outbound' = drain(p, hook_outbound)
              /\ aggregated' = [aggregated EXCEPT ![p] = @ + 1]
              /\ asyncio_task' = [asyncio_task EXCEPT ![p] = "callback"]
    /\ UNCHANGED <<nonfleet_vars, fbound_vars,
                   config_vars, must_cancel, is_running, start_calls, hook_tasks,
                   hook_stopped, hook_held, fworker_vars, fms_vars>>

\* get_content (where = "get") or result_callback (where = "callback") raises
\* inside the Periodic cycle task: the exception leaves `async with self`
\* through __aexit__ and ends the task
FleetRaise(p, where) ==
    /\ fleet_kind[p] = "Periodic"
    /\ asyncio_task[p] = where
    /\ where = "callback" => is_with_callback[p]
    /\ ~must_cancel[p]
    /\ aexit(p, "Exception")
    /\ failures < MaxFailures
    /\ failures' = failures + 1
    /\ UNCHANGED <<nonfleet_vars, stop_calls,
                   config_vars, must_cancel, start_calls, contents, hook_tasks,
                   hook_inbound, hook_held, hook_outbound, flog_vars, fworker_vars,
                   fms_vars>>

\* the gather of the Periodic cycle task completes
FleetGather(p) ==
    /\ fleet_kind[p] = "Periodic"
    /\ asyncio_task[p] = "gather"
    /\ ~must_cancel[p]
    /\ gather_ready(p)
    /\ hook_outbound' = gather_take(p, hook_outbound)
    /\ aggregated' = [aggregated EXCEPT ![p] = @ + 1]
    /\ asyncio_task' = [asyncio_task EXCEPT ![p] = "callback"]
    /\ UNCHANGED <<nonfleet_vars, fbound_vars,
                   config_vars, must_cancel, is_running, start_calls, contents,
                   hook_tasks, hook_stopped, hook_inbound, hook_held, notified,
                   fworker_vars, fms_vars>>

\* result_callback returned: `await asyncio.sleep(self.period)`
FleetCallback(p) ==
    /\ fleet_kind[p] = "Periodic"
    /\ asyncio_task[p] = "callback"
    /\ ~must_cancel[p]
    /\ asyncio_task' = [asyncio_task EXCEPT ![p] = "sleep"]
    /\ UNCHANGED <<nonfleet_vars, fbound_vars,
                   config_vars, must_cancel, is_running, start_calls, contents,
                   fhook_vars, flog_vars, fworker_vars, fms_vars>>

\* the sleep is over: `while self._is_running()` and the next get_content
FleetSleep(p) ==
    /\ fleet_kind[p] = "Periodic"
    /\ asyncio_task[p] = "sleep"
    /\ ~must_cancel[p]
    /\ asyncio_task' = [asyncio_task EXCEPT ![p] = "get"]
    /\ UNCHANGED <<nonfleet_vars, fbound_vars,
                   config_vars, must_cancel, is_running, start_calls, contents,
                   fhook_vars, flog_vars, fworker_vars, fms_vars>>

\* a hook on which stop() was called takes no further step: its task is
\* cancelled
hook_live(h) == ~hook_stopped[h]

\* cycle_call: `data = await self.get_straight_queue().get()`
FleetHookGet(h) ==
    /\ hook_tasks[h] = "idle"
    /\ hook_live(h)
    /\ hook_inbound[h] # <<>>
    /\ hook_held' = [hook_held EXCEPT ![h] = Head(hook_inbound[h])]
    /\ hook_inbound' = [hook_inbound EXCEPT ![h] = Tail(@)]
    /\ hook_tasks' = [hook_tasks EXCEPT ![h] = "busy"]
    /\ UNCHANGED <<nonfleet_vars, fbound_vars,
                   config_vars, task_vars, hook_stopped, hook_outbound, flog_vars,
                   fworker_vars, fms_vars>>

\* cycle_call: hook_action returned; `await self.get_callback_queue().put(result)`
FleetHookEmit(h) ==
    /\ hook_tasks[h] = "busy"
    /\ hook_live(h)
    /\ hook_outbound' = [hook_outbound EXCEPT ![h] = Append(@, hook_held[h])]
    /\ hook_held' = [hook_held EXCEPT ![h] = NoVal]
    /\ hook_tasks' = [hook_tasks EXCEPT ![h] = "idle"]
    /\ UNCHANGED <<nonfleet_vars, fbound_vars,
                   config_vars, task_vars, hook_stopped, hook_inbound, flog_vars,
                   fworker_vars, fms_vars>>

\* cycle_call: hook_action raises; nothing catches it and the hook's task ends
FleetHookRaise(h) ==
    /\ hook_tasks[h] = "busy"
    /\ hook_live(h)
    /\ hook_tasks' = [hook_tasks EXCEPT ![h] = "raised"]
    /\ failures < MaxFailures
    /\ failures' = failures + 1
    /\ UNCHANGED <<nonfleet_vars, stop_calls,
                   config_vars, task_vars, hook_stopped, hook_inbound, hook_held,
                   hook_outbound, flog_vars, fworker_vars, fms_vars>>

\* _thread_func: `while self._asyncio_running:` is false and the thread ends,
\* or get_content returned and the put and the _run_result_callback are
\* handed to the loop, the thread blocking in .result()
FleetWorkerGet(p) ==
    /\ thread_pc[p] = "running"
    /\ IF ~is_running[p]
         THEN /\ thread_pc' = [thread_pc EXCEPT ![p] = "ended"]
              /\ UNCHANGED <<contents, thread_calls>>
         ELSE /\ Total(contents, MaxRounds) < MaxRounds
              /\ contents' = [contents EXCEPT ![p] = @ + 1]
              /\ thread_calls' = [thread_calls EXCEPT
                     ![p] = @ \o <<<<"put", contents[p] + 1>>, <<"rrc", NoVal>>>>]
              /\ thread_pc' = [thread_pc EXCEPT ![p] = "result"]
    /\ UNCHANGED <<nonfleet_vars, fbound_vars,
                   config_vars, asyncio_task, must_cancel, is_running, start_calls,
                   fhook_vars, flog_vars, handoff, thread_gather, fms_vars>>

\* _thread_func: get_content raises on the worker thread; asyncio.run in the
\* thread re-raises and the thread ends
FleetWorkerRaise(p) ==
    /\ thread_pc[p] = "running"
    /\ is_running[p]
    /\ thread_pc' = [thread_pc EXCEPT ![p] = "dead"]
    /\ failures < MaxFailures
    /\ failures' = failures + 1
    /\ UNCHANGED <<nonfleet_vars, stop_calls,
                   config_vars, task_vars, fhook_vars, flog_vars, handoff,
                   thread_calls, thread_gather, fms_vars>>

\* the loop runs the oldest coroutine the worker handed over:
\* _content_queue.put(content), or _run_result_callback(), which suspends in
\* its gather or empties the outbound queues and completes the worker's
\* future at once
FleetLoopCall(p) ==
    /\ thread_calls[p] # <<>>
    /\ thread_calls' = [thread_calls EXCEPT ![p] = Tail(@)]
    /\ IF Head(thread_calls[p])[1] = "put"
         THEN /\ handoff' = [handoff EXCEPT ![p] = Append(@, Head(thread_calls[p])[2])]
              /\ UNCHANGED <<hook_outbound, aggregated, thread_gather, thread_pc>>
         ELSE /\ UNCHANGED handoff
              /\ IF is_with_callback[p]
                   THEN /\ thread_gather' = [thread_gather EXCEPT ![p] = TRUE]
                        /\ UNCHANGED <<hook_outbound, aggregated, thread_pc>>
                   ELSE /\ hook_outbound' = drain(p, hook_outbound)
                        /\ aggregated' = [aggregated EXCEPT ![p] = @ + 1]
                        /\ thread_pc' = [thread_pc EXCEPT ![p] = "callback"]
                        /\ UNCHANGED thread_gather
    /\ UNCHANGED <<nonfleet_vars, fbound_vars,
                   config_vars, task_vars, hook_tasks, hook_stopped, hook_inbound,
                   hook_held, notified, fms_vars>>

\* the gather of the worker's _run_result_callback completes and the
\* worker's future gets its result
FleetLoopGather(p) ==
    /\ thread_gather[p]
    /\ gather_ready(p)
    /\ hook_outbound' = gather_take(p, hook_outbound)
    /\ aggregated' = [aggregated EXCEPT ![p] = @ + 1]
    /\ thread_gather' = [thread_gather EXCEPT ![p] = FALSE]
    /\ thread_pc' = [thread_pc EXCEPT ![p] = "callback"]
    /\ UNCHANGED <<nonfleet_vars, fbound_vars,
                   config_vars, task_vars, hook_tasks, hook_stopped, hook_inbound,
                   hook_held, notified, handoff, thread_calls, fms_vars>>

\* a worker that does not wait for the result of _run_result_callback
FleetWorkerCallback_early(p) ==
    /\ thread_pc[p] \in {"result", "callback"}
    /\ thread_pc' = [thread_pc EXCEPT ![p] = "running"]
    /\ UNCHANGED <<nonfleet_vars, fbound_vars,
                   config_vars, task_vars, fhook_vars, flog_vars, handoff,
                   thread_calls, thread_gather, fms_vars>>

\* _thread_func: result_callback returned on the worker thread
FleetWorkerCallback(p) ==
    /\ thread_pc[p] = "callback"
    /\ thread_pc' = [thread_pc EXCEPT ![p] = "running"]
    /\ UNCHANGED <<nonfleet_vars, fbound_vars,
                   config_vars, task_vars, fhook_vars, flog_vars, handoff,
                   thread_calls, thread_gather, fms_vars>>

\* a get that leaves the item on the queue
content_queue_peek(q) == <<Head(q), q>>

\* _content_queue.get() on a queue that is not empty: the oldest item and
\* the rest of the queue
content_queue_get(q) == <<Head(q), Tail(q)>>

\* BlockingContentProvider.cycle: `string = await self._content_queue.get();
\* await self._notify_all_hooks(string)` and back into the get
FleetWait(p) ==
    /\ fleet_kind[p] = "Blocking"
    /\ asyncio_task[p] = "wait"
    /\ ~must_cancel[p]
    /\ handoff[p] # <<>>
    /\ handoff' = [handoff EXCEPT ![p] = content_queue_get(handoff[p])[2]]
    /\ hook_inbound' = notify(p, hook_inbound, content_queue_get(handoff[p])[1])
    /\ notified' = [notified EXCEPT ![p] = Append(@, content_queue_get(handoff[p])[1])]
    /\ UNCHANGED <<nonfleet_vars, fbound_vars,
                   config_vars, task_vars, hook_tasks, hook_stopped, hook_held,
                   hook_outbound, aggregated, thread_pc, thread_calls, thread_gather,
                   fms_vars>>

\* ------------------------------------------------ commands
\* Commands executed on the orchestrator by direct execute_command calls.
\* A list object is named by a reference: OwnProviders is the orchestrator's
\* _providers, OwnHooks(p) is provider p's _asynio_hooks, and n > 0 is the
\* n-th list made by a slice copy, whose items are copies[n].

OwnProviders == 0
OwnHooks(p) == 0 - p

\* the items of the list object behind a reference
Contents(ref) ==
    IF ref = OwnProviders THEN providers
    ELSE IF ref < 0 THEN hooks_of[0 - ref]
    ELSE copies[ref]

\* a getter that hands out the list it was asked to copy
slice_copy_alias(ref, made) == ref

\* `lst[:]`: a new list object; made lists exist so far
slice_copy(ref, made) == made + 1

\* an execute_command that sets the flag before _apply is called
executed_flag_early(raised) == TRUE

\* execute_command: `result = self._apply(phfsys); self._executed = True`:
\* the flag after the call, given whether _apply raised
executed_flag(raised) == ~raised

\* a lookup that always takes the first provider
target_provider_first(ps, num) == ps[1]

\* `phfsys.get_providers()[num]`: provider number num, counted from 0
target_provider(ps, num) == ps[num + 1]

\* the record of one execute_command call: what _apply returned (NoVal when
\* it raised), what the call returned, and the command's _executed flag
execution(k, num, raised, result) ==
    [kind |-> k, num |-> num, raised |-> raised, applied |-> result,
     value |-> IF raised THEN NoVal ELSE result,
     executed |-> executed_flag(raised)]

\* Command().execute_command(phfsys): the base _apply raises
\* NotImplementedError
ExecuteBase ==
    /\ Len(executions) < MaxCommands
    /\ executions' = Append(executions, execution("Command", NoVal, TRUE, NoVal))
    /\ UNCHANGED <<noncmd_vars, sys_vars, hooks_of, hooks_made, returned, copies>>

\* ListProvidersCommand: `self._data = phfsys.get_providers(); return self._data`,
\* where get_providers is `return self._providers[:]`
ExecuteListProviders ==
    /\ Len(executions) < MaxCommands
    /\ Len(returned) < MaxCommands
    /\ copies' = Append(copies, providers)
    /\ returned' = Append(returned,
                      [ref |-> slice_copy(OwnProviders, Len(copies)),
                       of |-> OwnProviders, at |-> providers, changed |-> FALSE])
    /\ executions' = Append(executions,
                        execution("ListProviders", NoVal, FALSE, Len(returned) + 1))
    /\ UNCHANGED <<noncmd_vars, sys_vars, hooks_of, hooks_made>>

\* ListHooksCommand(num): `self._provider = phfsys.get_providers()[num];
\* self._hooks = self._provider.get_hooks()[:]`; a number past the end of the
\* list raises IndexError
ExecuteListHooks(num) ==
    /\ Len(executions) < MaxCommands
    /\ Len(returned) < MaxCommands
    /\ IF num >= Len(providers)
         THEN /\ executions' = Append(executions,
                                  execution("ListHooks", num, TRUE, NoVal))
              /\ UNCHANGED <<returned, copies>>
         ELSE LET p == target_provider(providers, num) IN
              /\ copies' = Append(copies, hooks_of[p])
              /\ returned' = Append(returned,
                                [ref |-> slice_copy(OwnHooks(p), Len(copies)),
                                 of |-> OwnHooks(p), at |-> hooks_of[p],
                                 changed |-> FALSE])
              /\ executions' = Append(executions,
                                  execution("ListHooks", num, FALSE, Len(returned) + 1))
    /\ UNCHANGED <<noncmd_vars, sys_vars, hooks_of, hooks_made>>

\* NewProviderCommand: `self._provider = phfsys.create_provider(...);
\* phfsys.add_provider(self._provider)`; known: the factory knows the class
\* name, otherwise create_provider raises
ExecuteNewProvider(known) ==
    /\ Len(executions) < MaxCommands
    /\ Len(providers) < MaxProviders
    /\ IF known
         THEN LET p == CHOOSE q \in ProviderIds : q \notin Range(providers) IN
              /\ providers' = Append(providers, p)
              /\ provider_started' = [provider_started EXCEPT
                                        ![p] = add_provider_start(running_state, @)]
              /\ executions' = Append(executions,
                                  execution("NewProvider", NoVal, FALSE, p))
         ELSE /\ executions' = Append(executions,
                                  execution("NewProvider", NoVal, TRUE, NoVal))
              /\ UNCHANGED <<providers, provider_started>>
    /\ UNCHANGED <<noncmd_vars, running_state, sys_pc, command_queue, result_queue,
                   result_getters, src_pc, src_cmd, commands, applied, handed,
                   received, failed, hooks_of, hooks_made, returned, copies>>

\* NewHookCommand(name, num): `self._provider = phfsys.get_providers()[num];
\* self._hook = phfsys.create_hook(...); self._provider.add_hook(self._hook)`.
\* A number past the end raises IndexError and an unknown name makes
\* create_hook raise, both before anything is attached.  add_hook appends and,
\* on a provider whose running flag is set, calls _start_hook, which raises
\* when the provider's cycle task has not bound its loop yet (bound = FALSE)
ExecuteNewHook(num, known, bound) ==
    /\ Len(executions) < MaxCommands
    /\ IF num >= Len(providers) \/ ~known
         THEN /\ executions' = Append(executions,
                                  execution("NewHook", num, TRUE, NoVal))
              /\ UNCHANGED <<hooks_of, hooks_made>>
         ELSE LET p == target_provider(providers, num)
                  h == hooks_made + 1
                  raises == provider_started[p] > 0 /\ ~bound IN
              /\ Len(hooks_of[p]) < MaxHooks
              /\ hooks_made' = h
              /\ hooks_of' = [hooks_of EXCEPT ![p] = Append(@, h)]
              /\ executions' = Append(executions,
                                  execution("NewHook", num, raises,
                                            IF raises THEN NoVal ELSE h))
    /\ UNCHANGED <<noncmd_vars, sys_vars, returned, copies>>

\* the caller of a list-returning call changes the list it was given:
\* `del lst[0]`
ChangeReturned(i) ==
    /\ i \in 1..Len(returned)
    /\ ~returned[i].changed
    /\ Contents(returned[i].ref) # <<>>
    /\ returned' = [returned EXCEPT ![i].changed = TRUE]
    /\ LET ref == returned[i].ref IN
        /\ providers' = IF ref = OwnProviders THEN Tail(providers) ELSE providers
        /\ hooks_of' = IF ref < 0 THEN [hooks_of EXCEPT ![0 - ref] = Tail(@)]
                                  ELSE hooks_of
        /\ copies' = IF ref > 0 THEN [copies EXCEPT ![ref] = Tail(@)] ELSE copies
    /\ UNCHANGED <<noncmd_vars, running_state, provider_started, sys_pc,
                   command_queue, result_queue, result_getters, src_pc, src_cmd,
                   commands, applied, handed, received, failed, hooks_made,
                   executions>>

\* ---------------------------------------------------------------- class registry
\* _add_class_to_dict that binds the alias whatever it was bound to
add_class_to_dict_overwrite(reg, alias, cls) ==
    [classes |-> [reg EXCEPT ![alias] = cls],
     error |-> IF reg[alias] # NoClass /\ cls # reg[alias]
               THEN <<alias, reg[alias], cls>> ELSE <<>>]

\* _BasicAnalyser._add_class_to_dict: the registry and the error after the call
add_class_to_dict(reg, alias, cls) ==
    IF reg[alias] # NoClass /\ cls # reg[alias]
    THEN [classes |-> reg, error |-> <<alias, reg[alias], cls>>]
    ELSE [classes |-> [reg EXCEPT ![alias] = cls], error |-> <<>>]

\* _BasicAnalyser.analyse_module: the registrations of one path, in order, up to
\* the first one that raises
RECURSIVE analyse_module(_, _)
analyse_module(reg, path) ==
    IF path = <<>>
    THEN [classes |-> reg, error |-> <<>>]
    ELSE LET r == add_class_to_dict(reg, Head(path)[1], Head(path)[2])
         IN  IF r.error # <<>> THEN r ELSE analyse_module(r.classes, Tail(path))

AddClassToDict(alias, cls) ==
    LET r == add_class_to_dict(classes, alias, cls)
    IN  /\ classes' = r.classes
        /\ alias_error' = r.error
        /\ reg_seen' = reg_seen \cup
               (IF classes[alias] = NoClass THEN {}
                ELSE IF classes[alias] = cls THEN {"same"} ELSE {"conflict"})
        /\ UNCHANGED <<nonreg_vars, ext_vars, core_vars, analysed_path>>

Analyse(path) ==
    LET r == analyse_module(classes, path)
    IN  /\ classes' = r.classes
        /\ alias_error' = r.error
        /\ analysed_path' = IF r.error = <<>> THEN path ELSE analysed_path
        /\ reg_seen' = reg_seen \cup
               (IF analysed_path = path THEN {"reanalysed"} ELSE {})
        /\ UNCHANGED <<nonreg_vars, ext_vars, core_vars>>

\* ---------------------------------------------------------------- stop and restart
\* hook.stop() on every attached hook: its task is cancelled, its queues keep
\* what they hold
hook_stop ==
    [h \in HookIds |-> IF h \in Range(asynio_hooks) THEN "stopped" ELSE hook_pc[h]]

\* stop() on a started Periodic provider, up to the end of the cancelled cycle
\* task. A task that has not taken its first step ends without entering the
\* cycle, so __aexit__ never runs; a task inside `async with self` gets the
\* CancelledError at its suspension point and __aexit__ lowers the running
\* flag and stops the hooks. Neither removes anything from the queue lists.
Stop ==
    /\ kind = "Periodic"
    /\ prov_pc \in {"started", "while", "gather", "sleep"}
    /\ IF prov_pc = "started"
         THEN /\ prov_pc' = "cancelled"
              /\ UNCHANGED <<asyncio_running, gather_vars, hook_pc>>
         ELSE /\ prov_pc' = "stopped"
              /\ asyncio_running' = FALSE
              /\ gather_active' = FALSE
              /\ gather_queues' = <<>>
              /\ gather_results' = <<>>
              /\ hook_pc' = hook_stop
    /\ UNCHANGED <<side_vars, ext_vars, wire_vars, asyncio_loop, prov_content, prov_msg_id,
                   next_content, logs, hookq_vars, hook_target, content_queue,
                   loop_calls, worker_vars, hist_vars, ms_vars>>

\* start() on a provider whose cycle task has ended: the flag is raised and a
\* new cycle task is created, which will run `async with self` again
Restart ==
    /\ prov_pc \in {"stopped", "cancelled"}
    /\ restarts < MaxRestarts
    /\ restarts' = restarts + 1
    /\ prov_pc' = "started"
    /\ asyncio_running' = TRUE
    /\ UNCHANGED <<nonrestart_vars, ext_vars, wire_vars, asyncio_loop, prov_content,
                   prov_msg_id, next_content, logs, gather_vars, hookq_vars, hookt_vars,
                   content_queue, loop_calls, worker_vars, hist_vars, ms_vars>>

\* add_hook on a provider whose running flag is down after a stop: the hook is
\* appended and nothing is wired
AddHookIdle ==
    /\ prov_pc \in {"stopped", "cancelled"}
    /\ ~asyncio_running
    /\ Len(asynio_hooks) < MaxHooks
    /\ asynio_hooks' = Append(asynio_hooks, Len(asynio_hooks) + 1)
    /\ UNCHANGED <<side_vars, ext_vars, asyncio_straight_queues, asyncio_callback_queues,
                   flag_vars, cycle_vars, next_content, logs, gather_vars, hookq_vars,
                   hookt_vars, content_queue, loop_calls, worker_vars, hist_vars,
                   ms_vars>>

\* stop() on a started Blocking provider, up to the end of the cancelled cycle
\* task: a task inside `async with self` is cancelled at its
\* _content_queue.get() and __aexit__ lowers the running flag and stops the
\* hooks; the worker thread, the coroutines it submitted and a gather they
\* started are not touched.
BlockingStop ==
    /\ kind = "Blocking"
    /\ LoopIdle
    /\ prov_pc \in {"started", "cq_get"}
    /\ IF prov_pc = "started"
         THEN /\ prov_pc' = "cancelled"
              /\ UNCHANGED <<asyncio_running, hook_pc>>
         ELSE /\ prov_pc' = "stopped"
              /\ asyncio_running' = FALSE
              /\ hook_pc' = hook_stop
    /\ UNCHANGED <<side_vars, ext_vars, wire_vars, asyncio_loop, prov_content, prov_msg_id,
                   next_content, logs, gather_vars, hookq_vars, hook_target,
                   content_queue, loop_calls, worker_vars, hist_vars, ms_vars>>

\* worker: `while self._asyncio_running` finds the flag down; _coro returns and
\* the thread terminates
WorkerExit ==
    /\ worker_pc = "while"
    /\ ~asyncio_running
    /\ worker_pc' = "ended"
    /\ UNCHANGED <<side_vars, ext_vars, wire_vars, flag_vars, cycle_vars, next_content, logs,
                   gather_vars, hookq_vars, hookt_vars, content_queue, loop_calls,
                   worker_content, worker_res, hist_vars, ms_vars>>

\* ---------------------------------------------------------------- launch
\* The launch of the orchestrator step by step, with add_provider called
\* from another thread at any point of it.

\* _start_main_coroutine: `self._running_state = True`, the loop reference,
\* the queues, every input source started
LaunchFlag ==
    /\ sys_pc = "new"
    /\ running_state' = TRUE
    /\ command_queue' = <<>>
    /\ result_queue' = <<>>
    /\ src_pc' = [i \in Sources |-> "start"]
    /\ sys_pc' = "launching"
    /\ launch_i' = 1
    /\ UNCHANGED <<cfg_vars, reg_vars, restart_vars, core_vars, dyn_vars, lone_vars,
                   fleet_vars, cmd_vars, providers, provider_started, result_getters,
                   src_cmd, commands, applied, handed, received, failed, fadd_pc,
                   fadd_p, cycle_tasks, fadd_raised>>

\* one turn of `for provider in self._providers:
\* self._run_content_provider(provider)`: the list is read at each turn, so a
\* provider appended meanwhile is visited too
LaunchStartNext ==
    /\ sys_pc = "launching"
    /\ launch_i <= Len(providers)
    /\ provider_started' = [provider_started EXCEPT ![providers[launch_i]] = @ + 1]
    /\ cycle_tasks' = [cycle_tasks EXCEPT ![providers[launch_i]] = @ + 1]
    /\ launch_i' = launch_i + 1
    /\ UNCHANGED <<cfg_vars, reg_vars, restart_vars, core_vars, dyn_vars, lone_vars,
                   fleet_vars, cmd_vars, running_state, providers, sys_pc,
                   command_queue, result_queue, result_getters, src_pc, src_cmd,
                   commands, applied, handed, received, failed, fadd_pc, fadd_p,
                   fadd_raised>>

\* the launch loop finds the list exhausted; the command loop begins
LaunchDone ==
    /\ sys_pc = "launching"
    /\ launch_i > Len(providers)
    /\ sys_pc' = "get"
    /\ UNCHANGED <<cfg_vars, reg_vars, restart_vars, core_vars, dyn_vars, lone_vars,
                   fleet_vars, cmd_vars, running_state, providers, provider_started,
                   command_queue, result_queue, result_getters, src_pc, src_cmd,
                   commands, applied, handed, received, failed, race_vars>>

\* add_provider on the scheduler thread of the launched orchestrator: append,
\* then start
AddProviderRunning ==
    /\ sys_pc = "get"
    /\ fadd_pc = "idle"
    /\ Len(providers) < MaxProviders
    /\ LET p == Len(providers) + 1 IN
        /\ providers' = Append(providers, p)
        /\ provider_started' = [provider_started EXCEPT
                                  ![p] = add_provider_start(running_state, @)]
        /\ cycle_tasks' = [cycle_tasks EXCEPT ![p] = @ + 1]
    /\ UNCHANGED <<cfg_vars, reg_vars, restart_vars, core_vars, dyn_vars, lone_vars,
                   fleet_vars, cmd_vars, running_state, sys_pc, command_queue,
                   result_queue, result_getters, src_pc, src_cmd, commands, applied,
                   handed, received, failed, launch_i, fadd_pc, fadd_p, fadd_raised>>

\* foreign thread, add_provider: `self._providers.append(content_provider)`
ForeignAddProvider ==
    /\ fadd_pc = "idle"
    /\ Len(providers) < MaxProviders
    /\ providers' = Append(providers, Len(providers) + 1)
    /\ fadd_p' = Len(providers) + 1
    /\ fadd_pc' = "appended"
    /\ UNCHANGED <<cfg_vars, reg_vars, restart_vars, core_vars, dyn_vars, lone_vars,
                   fleet_vars, cmd_vars, running_state, provider_started, sys_pc,
                   command_queue, result_queue, result_getters, src_pc, src_cmd,
                   commands, applied, handed, received, failed, launch_i,
                   cycle_tasks, fadd_raised>>

\* foreign thread, add_provider: `if self._running_state:`
ForeignCheckState ==
    /\ fadd_pc = "appended"
    /\ fadd_pc' = IF running_state THEN "start" ELSE "idle"
    /\ UNCHANGED <<cfg_vars, reg_vars, restart_vars, core_vars, dyn_vars, lone_vars,
                   fleet_vars, cmd_vars, sys_vars, launch_i, fadd_p, cycle_tasks,
                   fadd_raised>>

\* foreign thread, add_provider: _run_content_provider -> provider.start().
\* start() raises the provider's flag and calls asyncio.create_task, which
\* creates the cycle task on the loop running in the calling thread, or
\* raises RuntimeError when that thread runs no loop
ForeignStart(has_loop) ==
    /\ fadd_pc = "start"
    /\ provider_started' = [provider_started EXCEPT ![fadd_p] = @ + 1]
    /\ IF has_loop
         THEN /\ cycle_tasks' = [cycle_tasks EXCEPT ![fadd_p] = @ + 1]
              /\ UNCHANGED fadd_raised
         ELSE /\ fadd_raised' = fadd_raised \cup {fadd_p}
              /\ UNCHANGED cycle_tasks
    /\ fadd_pc' = "idle"
    /\ UNCHANGED <<cfg_vars, reg_vars, restart_vars, core_vars, dyn_vars, lone_vars,
                   fleet_vars, cmd_vars, running_state, providers, sys_pc,
                   command_queue, result_queue, result_getters, src_pc, src_cmd,
                   commands, applied, handed, received, failed, launch_i, fadd_p>>

\* ---------------------------------------------------------------- system
Init ==
    /\ kind \in Kinds
    /\ identity_hooks \in BOOLEAN
    /\ asynio_hooks = <<>>
    /\ asyncio_straight_queues = <<>>
    /\ asyncio_callback_queues = <<>>
    /\ asyncio_running = FALSE
    /\ asyncio_loop = FALSE
    /\ prov_pc = "new"
    /\ prov_content = NoVal
    /\ prov_msg_id = NoVal
    /\ next_content = 0
    /\ logs = <<>>
    /\ gather_queues = <<>>
    /\ gather_results = <<>>
    /\ gather_active = FALSE
    /\ straight_queue = [h \in HookIds |-> <<>>]
    /\ callback_queue = [h \in HookIds |-> <<>>]
    /\ hook_pc = [h \in HookIds |-> "new"]
    /\ hook_target = [h \in HookIds |-> NoVal]
    /\ content_queue = <<>>
    /\ loop_calls = <<>>
    /\ worker_pc = "off"
    /\ worker_content = NoVal
    /\ worker_res = <<>>
    /\ fed = <<>>
    /\ agg_log = <<>>
    /\ input_queue = <<>>
    /\ input_set = FALSE
    /\ output_queue = <<>>
    /\ output_set = FALSE
    /\ tmp_queue = <<>>
    /\ message_id = 0
    /\ result_to_mID_mapping = <<>>
    /\ needed_output_events = <<>>
    /\ event_set = [t \in Threads |-> FALSE]
    /\ lock = "free"
    /\ listener_pc = "off"
    /\ listener_msg_id = NoVal
    /\ th_pc = [t \in Threads |-> "idle"]
    /\ th_data = [t \in Threads |-> NoVal]
    /\ th_branch = [t \in Threads |-> FALSE]
    /\ th_mid = [t \in Threads |-> NoVal]
    /\ th_load = [t \in Threads |-> NoVal]
    /\ th_want = [t \in Threads |-> NoVal]
    /\ th_sends = [t \in Threads |-> 0]
    /\ th_retrieves = [t \in Threads |-> 0]
    /\ send_log = {}
    /\ ret_log = {}
    /\ tmp_hist = <<>>
    /\ input_hist = <<>>
    /\ tmp_at_init = <<>>
    /\ post_log = {}
    /\ adder_pc = "idle"
    /\ adder_hook = NoVal
    /\ dup_pc = [h \in HookIds |-> "off"]
    /\ dup_target = [h \in HookIds |-> NoVal]
    /\ add_returned = {}
    /\ add_raised = {}
    /\ lone_asyncio_queue = NoQueue
    /\ lone_callback_queue = NoQueue
    /\ queues_made = 0
    /\ queue_items = [q \in QueueIds |-> <<>>]
    /\ lone_pc = "new"
    /\ lone_wait = NoQueue
    /\ lone_target = NoVal
    /\ getter_calls = 0
    /\ got_straight = {}
    /\ got_callback = {}
    /\ lone_put = <<>>
    /\ lone_emitted = <<>>
    /\ lone_out = <<>>
    /\ running_state = FALSE
    /\ providers = <<>>
    /\ provider_started = [p \in ProviderIds |-> 0]
    /\ sys_pc = "new"
    /\ command_queue = <<>>
    /\ result_queue = <<>>
    /\ result_getters = <<>>
    /\ src_pc = [i \in Sources |-> "off"]
    /\ src_cmd = [i \in Sources |-> NoVal]
    /\ commands = <<>>
    /\ applied = <<>>
    /\ handed = <<>>
    /\ received = {}
    /\ failed = NoVal
    /\ fleet_kind = [p \in ProviderIds |-> "None"]
    /\ is_with_callback = [p \in ProviderIds |-> FALSE]
    /\ hook_count = [p \in ProviderIds |-> 0]
    /\ asyncio_task = [p \in ProviderIds |-> "None"]
    /\ must_cancel = [p \in ProviderIds |-> FALSE]
    /\ is_running = [p \in ProviderIds |-> FALSE]
    /\ start_calls = [p \in ProviderIds |-> 0]
    /\ contents = [p \in ProviderIds |-> 0]
    /\ hook_tasks = [h \in FleetHooks |-> "None"]
    /\ hook_stopped = [h \in FleetHooks |-> FALSE]
    /\ hook_inbound = [h \in FleetHooks |-> <<>>]
    /\ hook_held = [h \in FleetHooks |-> NoVal]
    /\ hook_outbound = [h \in FleetHooks |-> <<>>]
    /\ notified = [p \in ProviderIds |-> <<>>]
    /\ aggregated = [p \in ProviderIds |-> 0]
    /\ thread_pc = [p \in ProviderIds |-> "None"]
    /\ handoff = [p \in ProviderIds |-> <<>>]
    /\ thread_calls = [p \in ProviderIds |-> <<>>]
    /\ thread_gather = [p \in ProviderIds |-> FALSE]
    /\ initialize_calls = [p \in ProviderIds |-> 0]
    /\ queues_handed = [p \in ProviderIds |-> 0]
    /\ listener_tasks = [p \in ProviderIds |-> 0]
    /\ stop_calls = 0
    /\ failures = 0
    /\ hooks_of = [p \in ProviderIds |-> <<>>]
    /\ hooks_made = 0
    /\ executions = <<>>
    /\ returned = <<>>
    /\ copies = <<>>
    /\ classes = [a \in Aliases |-> NoClass]
    /\ alias_error = <<>>
    /\ analysed_path = <<>>
    /\ reg_seen = {}
    /\ restarts = 0
    /\ launch_i = 0
    /\ fadd_pc = "idle"
    /\ fadd_p = NoVal
    /\ cycle_tasks = [p \in ProviderIds |-> 0]
    /\ fadd_raised = {}

\* hooks and the gather getters run under every discipline
NextHooks ==
    \/ AddHook
    \/ Start
    \/ \E h \in HookIds : HookGet(h)
    \/ \E h \in HookIds : HookEmit(h)
    \/ \E i \in 1..MaxHooks : GatherGet(i)

NextConsistent ==
    \/ PeriodicEnter
    \/ PeriodicCycle
    \/ PeriodicCallback
    \/ PeriodicSleep
    \/ BlockingEnter
    \/ WorkerGetContent
    \/ WorkerSubmit
    \/ WorkerResult
    \/ LoopRunPut
    \/ LoopRunResultCallback
    \/ BlockingGatherDone
    \/ BlockingCycleGet

NextComplex ==
    \/ ComplexEnter
    \/ InitDrainOne
    \/ InitFinish
    \/ ComplexGet
    \/ ComplexPost
    \/ \E t \in Threads : SendCheck(t)
    \/ \E t \in Threads : SendPut(t)
    \/ \E t \in Threads : SendLoad(t)
    \/ \E t \in Threads : SendStore(t)
    \/ \E t \in Threads : SendReturn(t)
    \/ LoopRunInputPut
    \/ \E t \in Threads : \E id \in 0..(MaxSends * Cardinality(Threads)) : RetrieveCall(t, id)
    \/ \E t \in Threads : RetrieveWake(t)
    \/ ListenerStore
    \/ ListenerSet

Next == NextHooks \/ NextConsistent \/ NextComplex

\* any of the three disciplines
Spec == Init /\ [][Next]_vars

\* a Periodic or Blocking provider
InitConsistent == Init /\ kind \in {"Periodic", "Blocking"}
SpecConsistent == InitConsistent /\ [][NextHooks \/ NextConsistent]_vars

\* a Complex provider with its MessageSystem and client threads
InitComplex == Init /\ kind = "Complex"
SpecComplex == InitComplex /\ [][NextHooks \/ NextComplex]_vars

\* hooks added to a provider that may be running, from its loop thread and
\* from a foreign thread
NextDynamic ==
    \/ AddHookRunning
    \/ AddHookUnbound
    \/ ForeignAppend
    \/ ForeignCheckRunning
    \/ ForeignSchedule
    \/ LoopRunWire
    \/ \E h \in HookIds : DupGet(h)
    \/ \E h \in HookIds : DupEmit(h)

\* a Periodic or Blocking provider whose hooks are added at any time
SpecDynamic == InitConsistent /\ [][NextHooks \/ NextConsistent \/ NextDynamic]_vars

\* a hook used on its own through its queues
NextHook ==
    \/ GetStraightQueue
    \/ GetCallbackQueue
    \/ LoneStart
    \/ \E q \in QueueIds : LonePut(q)
    \/ LoneHookGet
    \/ LoneHookEmit
    \/ \E q \in QueueIds : LoneRead(q)

InitHook == Init /\ kind = "Periodic"
SpecHook == InitHook /\ [][NextHook]_vars

\* the orchestrator, its providers' starts and its input sources
NextSystem ==
    \/ AddProvider
    \/ Launch
    \/ \E i \in Sources : SourceBegin(i)
    \/ \E i \in Sources : \E k \in CommandKinds : SourceSubmit(i, k)
    \/ \E i \in Sources : SourceResume(i)
    \/ SysApply

InitSystem == Init /\ kind = "Periodic" /\ identity_hooks
SpecSystem == InitSystem /\ [][NextSystem]_vars

\* providers on one scheduler through start, stop, failure and restart
NextFleet ==
    \/ \E p \in ProviderIds, k \in Kinds, cb \in BOOLEAN : FleetNew(p, k, cb)
    \/ \E p \in ProviderIds : FleetAddHook(p)
    \/ \E p \in ProviderIds : FleetStart(p)
    \/ \E p \in ProviderIds : FleetStop(p)
    \/ \E p \in ProviderIds : FleetCancel(p)
    \/ \E p \in ProviderIds : FleetEnter(p)
    \/ \E p \in ProviderIds : FleetGetContent(p)
    \/ \E p \in ProviderIds, where \in {"get", "callback"} : FleetRaise(p, where)
    \/ \E p \in ProviderIds : FleetGather(p)
    \/ \E p \in ProviderIds : FleetCallback(p)
    \/ \E p \in ProviderIds : FleetSleep(p)
    \/ \E h \in FleetHooks : FleetHookGet(h)
    \/ \E h \in FleetHooks : FleetHookEmit(h)
    \/ \E h \in FleetHooks : FleetHookRaise(h)
    \/ \E p \in ProviderIds : FleetWorkerGet(p)
    \/ \E p \in ProviderIds : FleetWorkerRaise(p)
    \/ \E p \in ProviderIds : FleetLoopCall(p)
    \/ \E p \in ProviderIds : FleetLoopGather(p)
    \/ \E p \in ProviderIds : FleetWorkerCallback(p)
    \/ \E p \in ProviderIds : FleetWait(p)

InitFleet == Init /\ kind = "Periodic" /\ identity_hooks
SpecFleet == InitFleet /\ [][NextFleet]_vars

\* commands executed directly on an orchestrator, before or after its launch
NextCommand ==
    \/ AddProvider
    \/ Launch
    \/ ExecuteBase
    \/ ExecuteListProviders
    \/ \E num \in 0..MaxProviders - 1 : ExecuteListHooks(num)
    \/ \E known \in BOOLEAN : ExecuteNewProvider(known)
    \/ \E num \in 0..MaxProviders - 1, known \in BOOLEAN, bound \in BOOLEAN :
            ExecuteNewHook(num, known, bound)
    \/ \E i \in 1..MaxCommands : ChangeReturned(i)

SpecCommand == InitSystem /\ [][NextCommand]_vars

\* one analyser: direct registrations and analyses of paths
NextRegistry ==
    \/ \E alias \in Aliases, cls \in Classes : AddClassToDict(alias, cls)
    \/ \E path \in Paths : Analyse(path)

InitRegistry == Init /\ kind = "Periodic" /\ identity_hooks

SpecRegistry == InitRegistry /\ [][NextRegistry]_vars

\* a Periodic provider that is started, stopped and started again
NextRestart ==
    \/ PeriodicEnter
    \/ PeriodicCycle
    \/ PeriodicCallback
    \/ PeriodicSleep
    \/ Stop
    \/ Restart

InitRestart == Init /\ kind = "Periodic"

SpecRestart == InitRestart /\ [][NextHooks \/ NextRestart]_vars

\* the steps of a started Blocking provider: its worker thread, the
\* coroutines the worker hands to the loop, and the cycle task
NextBlocking ==
    \/ BlockingEnter
    \/ WorkerGetContent
    \/ WorkerSubmit
    \/ WorkerResult
    \/ LoopRunPut
    \/ LoopRunResultCallback
    \/ BlockingGatherDone
    \/ BlockingCycleGet

InitBlocking == Init /\ kind = "Blocking"

\* a Blocking provider whose hooks are added on its loop thread at any time
SpecLateHook == InitBlocking /\ [][NextHooks \/ NextBlocking \/ AddHookRunning]_vars

\* the steps the event loop takes on its own: every task that can run is run
SchedulerFair ==
    /\ WF_vars(PeriodicEnter)
    /\ WF_vars(PeriodicCycle)
    /\ WF_vars(PeriodicCallback)
    /\ WF_vars(PeriodicSleep)
    /\ \A h \in HookIds : WF_vars(HookGet(h)) /\ WF_vars(HookEmit(h))
    /\ \A i \in 1..MaxHooks : WF_vars(GatherGet(i))

\* a Periodic provider started, stopped and started again, with hooks added in
\* every state; the callers' steps (add_hook, start, stop) carry no fairness
SpecStopFair ==
    /\ InitRestart
    /\ [][NextHooks \/ NextRestart \/ AddHookRunning \/ AddHookUnbound \/ AddHookIdle]_vars
    /\ SchedulerFair

\* a Blocking provider with its worker thread, stopped at any time; the
\* event loop runs every ready task and submitted coroutine, and the worker
\* thread is scheduled (get_content and result_callback return)
SpecWorkerFair ==
    /\ InitBlocking
    /\ [][NextHooks \/ NextBlocking \/ WorkerExit \/ BlockingStop]_vars
    /\ WF_vars(BlockingEnter)
    /\ WF_vars(WorkerGetContent)
    /\ WF_vars(WorkerSubmit)
    /\ WF_vars(WorkerResult)
    /\ WF_vars(WorkerExit)
    /\ WF_vars(LoopRunPut)
    /\ WF_vars(LoopRunResultCallback)
    /\ WF_vars(BlockingGatherDone)
    /\ WF_vars(BlockingCycleGet)
    /\ \A h \in HookIds : WF_vars(HookGet(h)) /\ WF_vars(HookEmit(h))
    /\ \A i \in 1..MaxHooks : WF_vars(GatherGet(i))

\* the orchestrator's launch, with providers added before it, during it from
\* another thread, and after it
NextLaunch ==
    \/ AddProvider
    \/ LaunchFlag
    \/ LaunchStartNext
    \/ LaunchDone
    \/ AddProviderRunning
    \/ ForeignAddProvider
    \/ ForeignCheckState
    \/ \E has_loop \in BOOLEAN : ForeignStart(has_loop)

SpecLaunch == InitSystem /\ [][NextLaunch]_vars

\* ---------------------------------------------------------------- claims
\* the list of the attached hooks' outputs for item x, in registration order
HookOutputs(x) == [i \in 1..Len(asynio_hooks) |-> hook_action(asynio_hooks[i], x)]

\* C1: with a fixed set of N attached hooks, under every discipline, the
\* aggregated result list of every cycle has length N and its i-th element is
\* the output of the i-th registered hook for the item broadcast in that
\* cycle, whatever order the hooks complete in.
C1_AggregatedAligned ==
    \A k \in 1..Len(agg_log) :
        /\ Len(agg_log[k]) = Len(asynio_hooks)
        /\ \A i \in 1..Len(asynio_hooks) :
            /\ k <= Len(fed)
            /\ agg_log[k][i] = hook_action(asynio_hooks[i], fed[k])

\* C1 witness: two distinguishable hooks, a second cycle under way in which
\* the second hook's result was collected before the first hook's, after a
\* first aggregated list was delivered.
C1_Witness ==
    /\ ~identity_hooks
    /\ Len(asynio_hooks) = 2
    /\ Len(agg_log) >= 1
    /\ gather_active
    /\ Len(gather_results) = 2
    /\ gather_results[1] = NoVal
    /\ gather_results[2] # NoVal

\* C2: for a Periodic or Blocking provider whose acquisition yields 0,1,2,...
\* result_callback is invoked once per acquired item, in acquisition order,
\* the k-th call with the hooks' outputs for item k-1 ([k-1]*N for identity
\* hooks); the callback for an item precedes the acquisition of the next.
C2_CallbackPerItemInOrder ==
    /\ Len(logs) <= next_content
    /\ next_content <= Len(logs) + 1
    /\ \A k \in 1..Len(logs) :
        /\ logs[k] = HookOutputs(k - 1)
        /\ identity_hooks => logs[k] = SeqOf(k - 1, Len(asynio_hooks))

\* C2 witness: N = 2 identity hooks and every item's callback made.
C2_Witness ==
    /\ identity_hooks
    /\ Len(asynio_hooks) = 2
    /\ Len(logs) = MaxItems
    /\ logs[MaxItems] = <<MaxItems - 1, MaxItems - 1>>

\* C3 (as claimed): send_to_provider returns pairwise distinct ids, whatever
\* the interleaving of the sending threads.
C3_DistinctIds ==
    \A r1 \in send_log : \A r2 \in send_log : r1 # r2 => r1.id # r2.id

\* C4: a retrieve_result(id) call that found no result and registered its
\* wait handle is not woken before the result is stored; once the result is
\* stored its handle is set (or the listener, still holding the lock, is about
\* to set it), so it is never left blocked; and the value it returns is a
\* result posted with that id.  The handle is the caller's own registration:
\* a second caller of the same id that replaces it is another case.
C4_NoLostWakeup ==
    /\ \A t \in Threads :
        /\ (th_pc[t] = "wait" /\ event_set[t])
              => th_want[t] \in DOMAIN result_to_mID_mapping
        /\ (/\ th_pc[t] = "wait"
            /\ th_want[t] \in DOMAIN needed_output_events
            /\ needed_output_events[th_want[t]] = t
            /\ th_want[t] \in DOMAIN result_to_mID_mapping)
              => \/ event_set[t]
                 \/ listener_pc = "set" /\ listener_msg_id = th_want[t]
    /\ \A r \in ret_log : r.waited => <<r.val, r.id>> \in post_log

\* C4 witness: a caller that blocked has returned.
C4_Witness == \E r \in ret_log : r.waited

\* C5 (as claimed): retrieve_result(id) returns the hooks' outputs for the
\* data that was sent with that id, for any interleaving of senders.
C5_ResultOfOwnData ==
    \A r \in ret_log : \A m \in send_log :
        m.id = r.id => r.val = HookOutputs(m.data)

\* nothing is in flight between the clients and the result map, and no
\* client will send again
PipelineIdle ==
    /\ input_set
    /\ prov_pc = "in_get"
    /\ input_queue = <<>>
    /\ output_queue = <<>>
    /\ loop_calls = <<>>
    /\ listener_pc = "get"
    /\ \A t \in Threads : th_pc[t] \in {"idle", "wait"} /\ th_sends[t] = MaxSends

\* C6 (as claimed): every id returned by send_to_provider eventually has a
\* stored result; so once the provider, its hooks and the listener have
\* nothing left to do, every returned id has one.
C6_EveryIdAnswered ==
    PipelineIdle => \A m \in send_log : m.id \in DOMAIN result_to_mID_mapping

\* C7 (as claimed): once the system is ACTIVE nothing remains in the pre-init
\* buffer, and the data of every completed send has been put exactly once on
\* the active request queue (once the loop has run the submitted puts).
C7_NoMessageLost ==
    input_set =>
        /\ tmp_queue = <<>>
        /\ loop_calls = <<>> =>
             \A m \in send_log :
                Cardinality({i \in 1..Len(input_hist) : input_hist[i][1] = m.data}) = 1

\* C8: until initialize() starts, the messages sent are all in the pre-init
\* buffer in the order they were put and no active queue exists; initialize()
\* moves a prefix of the buffered messages, in that same order, to the front
\* of the active request queue, and when it is done every message that was
\* buffered when it started has been moved and is out of the buffer.
C8_BufferedInOrder ==
    LET n == Len(tmp_hist) - Len(tmp_queue) IN
    /\ ~output_set => /\ tmp_queue = tmp_hist
                      /\ ~input_set
                      /\ input_hist = <<>>
    /\ n >= 0
    /\ tmp_queue = SubSeq(tmp_hist, n + 1, Len(tmp_hist))
    /\ output_set => /\ Len(input_hist) >= n
                     /\ SubSeq(input_hist, 1, n) = SubSeq(tmp_hist, 1, n)
                     /\ tmp_at_init = SubSeq(tmp_hist, 1, Len(tmp_at_init))
    /\ input_set => /\ n >= Len(tmp_at_init)
                    /\ \A i \in 1..Len(tmp_queue) : tmp_queue[i] \notin Range(tmp_at_init)

\* C8 witness: two messages were buffered before initialize(), which is done.
C8_Witness ==
    /\ input_set
    /\ Len(tmp_at_init) = 2
    /\ Len(input_hist) >= 2

\* C9: a retrieve_result(id) call made when the result for id is stored
\* returns at once (it does not wait), returns the stored value, and no
\* returning retrieve_result call changes the result map.
C9_StoredResultReadOnly ==
    [][/\ \A t \in Threads :
            (th_retrieves'[t] # th_retrieves[t]
                /\ th_want'[t] \in DOMAIN result_to_mID_mapping)
              => /\ th_pc'[t] = "idle"
                 /\ ret_log' = ret_log \cup
                       {[t |-> t, id |-> th_want'[t],
                         val |-> result_to_mID_mapping[th_want'[t]],
                         waited |-> FALSE]}
       /\ (ret_log' # ret_log \/ th_retrieves' # th_retrieves)
              => result_to_mID_mapping' = result_to_mID_mapping]_vars

\* C9 witness: the stored result of one id was retrieved by both threads,
\* neither of them waiting.
C9_Witness ==
    \E r1 \in ret_log : \E r2 \in ret_log :
        /\ r1.t # r2.t
        /\ r1.id = r2.id
        /\ ~r1.waited
        /\ ~r2.waited
        /\ r1.val = r2.val

\* C10 (as claimed): once a result is stored for an id it is never written
\* again: the entry stays and keeps its value.
C10_WrittenOnce ==
    [][\A id \in DOMAIN result_to_mID_mapping :
          /\ id \in DOMAIN result_to_mID_mapping'
          /\ result_to_mID_mapping'[id] = result_to_mID_mapping[id]]_vars

\* C11: the wait handle of a thread blocked in retrieve_result(b) is set only
\* by the listener serving a result tagged b, after storing it: a result for
\* a # b releases no waiter on b; and a waiter returns a value that was posted
\* with its own id.
C11_OwnIdOnly ==
    [][/\ \A t \in Threads :
            (event_set'[t] /\ ~event_set[t]) =>
                /\ th_pc[t] = "wait"
                /\ listener_pc = "set"
                /\ listener_msg_id = th_want[t]
                /\ th_want[t] \in DOMAIN result_to_mID_mapping
                /\ <<result_to_mID_mapping[th_want[t]], th_want[t]>> \in post_log
       /\ \A r \in ret_log' \ ret_log :
            r.waited => <<r.val, r.id>> \in post_log]_vars

\* C11 witness: two threads wait on different ids at once; one has been
\* released, the other is still blocked.
C11_Witness ==
    \E t1 \in Threads : \E t2 \in Threads :
        /\ th_pc[t1] = "wait"
        /\ th_pc[t2] = "wait"
        /\ th_want[t1] # th_want[t2]
        /\ event_set[t1]
        /\ ~event_set[t2]

\* C12 (as claimed): in every reachable state the wired queue lists are
\* index-aligned with the hook list: the i-th inbound and the i-th outbound
\* queue are those of the i-th hook, for hooks added before start, on the
\* loop thread while running and from a foreign thread while running.
C12_QueuesAligned ==
    /\ Len(asyncio_straight_queues) = Len(asyncio_callback_queues)
    /\ \A i \in 1..Len(asyncio_straight_queues) :
        /\ i <= Len(asynio_hooks)
        /\ asyncio_straight_queues[i] = asynio_hooks[i]
        /\ asyncio_callback_queues[i] = asynio_hooks[i]

\* C13 (as claimed): on a running provider every broadcast made after
\* add_hook(h) returned puts its item on h's inbound queue, and nothing is on
\* the inbound queue of a hook whose add_hook was not called yet; for add_hook
\* called on the loop thread and from a foreign thread.
C13_AddedHookFed ==
    [][\A h \in HookIds :
          /\ (fed' # fed /\ h \in add_returned)
                => fed'[Len(fed')] \in Range(straight_queue'[h])
          /\ h \notin Range(asynio_hooks') => straight_queue'[h] = <<>>]_vars

\* C14: while the provider is not running no queue is wired and no hook task
\* exists, and add_hook only appends the hook to the hook list; the step that
\* starts the provider (__aenter__) wires every hook of the list, in
\* registration order.
C14_WiredAtStart ==
    [][/\ ~asyncio_running' =>
            /\ asyncio_straight_queues' = <<>>
            /\ asyncio_callback_queues' = <<>>
            /\ \A h \in HookIds : hook_pc'[h] = "new" /\ dup_pc'[h] = "off"
       /\ (~asyncio_running /\ asynio_hooks' # asynio_hooks) =>
            /\ asynio_hooks' = Append(asynio_hooks, Len(asynio_hooks) + 1)
            /\ UNCHANGED <<asyncio_straight_queues, asyncio_callback_queues,
                           hook_pc, dup_pc>>
       /\ (~asyncio_loop /\ asyncio_loop') =>
            /\ asyncio_straight_queues' = asynio_hooks
            /\ asyncio_callback_queues' = asynio_hooks
            /\ \A h \in Range(asynio_hooks) : hook_pc'[h] = "get"]_vars

\* C14 witness: two hooks were added before the start, none after, and the
\* started provider has both wired in registration order.
C14_Witness ==
    /\ asyncio_loop
    /\ asynio_hooks = <<1, 2>>
    /\ asyncio_straight_queues = <<1, 2>>
    /\ asyncio_callback_queues = <<1, 2>>
    /\ hook_pc = [h \in HookIds |-> "get"]
    /\ add_returned = {}
    /\ add_raised = {}
    /\ adder_pc = "idle"

\* C15: a running hook emits one output per inbound item, in the order the
\* items were put on its inbound queue: the outputs emitted so far are the
\* hook's outputs for the first items put, every item put is either emitted,
\* being processed or still queued, and the outputs are read in that order;
\* also when several items are queued before any output is read.
C15_HookFifo ==
    /\ Len(lone_emitted) <= Len(lone_put)
    /\ \A k \in 1..Len(lone_emitted) : lone_emitted[k] = hook_action(1, lone_put[k])
    /\ Len(lone_out) <= Len(lone_emitted)
    /\ \A k \in 1..Len(lone_out) : lone_out[k] = lone_emitted[k]
    /\ lone_asyncio_queue # NoQueue =>
          Len(lone_put) = Len(lone_emitted)
                          + (IF lone_pc = "action" THEN 1 ELSE 0)
                          + Len(queue_items[lone_asyncio_queue])

\* C15 witness: every item was put and emitted before any output was read.
C15_Witness ==
    /\ Len(lone_put) = MaxItems
    /\ Len(lone_emitted) = MaxItems
    /\ lone_out = <<>>

\* C16: every call of get_straight_queue returns one and the same instance,
\* every call of get_callback_queue returns one and the same other instance,
\* whether the calls are the user's or the hook's own loop's, before or after
\* the loop started: the hook creates two queues in its lifetime and its loop
\* waits on the inbound one.
C16_GettersIdempotent ==
    /\ Cardinality(got_straight) <= 1
    /\ Cardinality(got_callback) <= 1
    /\ got_straight \cap got_callback = {}
    /\ got_straight \subseteq {lone_asyncio_queue}
    /\ got_callback \subseteq {lone_callback_queue}
    /\ lone_pc # "new" => lone_wait = lone_asyncio_queue
    /\ queues_made <= 2

\* C16 witness: the user made all its getter calls, the loop runs and has
\* used both getters.
C16_Witness ==
    /\ getter_calls = MaxGetterCalls
    /\ lone_pc # "new"
    /\ got_straight # {}
    /\ got_callback # {}
    /\ Len(lone_emitted) >= 1

\* C17: add_provider appends the provider to the provider list and starts it
\* exactly when the orchestrator is running; the launch starts every provider
\* registered before it; no provider is started while the orchestrator is
\* not running.
C17_AddProvider ==
    [][/\ providers' # providers =>
            LET p == Len(providers) + 1 IN
            /\ providers' = Append(providers, p)
            /\ provider_started'[p] = IF running_state THEN 1 ELSE 0
            /\ \A q \in ProviderIds \ {p} : provider_started'[q] = provider_started[q]
       /\ (~running_state /\ running_state') =>
            \A p \in ProviderIds :
                provider_started'[p] = IF p \in Range(providers) THEN 1 ELSE 0
       /\ ~running_state' => \A p \in ProviderIds : provider_started'[p] = 0]_vars

\* C17 witness: a running orchestrator with one provider registered before
\* the launch and one added by a command, each started once.
C17_Witness ==
    /\ running_state
    /\ Len(providers) = 2
    /\ \A p \in ProviderIds : p <= 2 => provider_started[p] = 1
    /\ Cardinality({k \in 1..Len(applied) : commands[applied[k]].kind = "new_provider"}) = 1

\* C18: commands leave the command queue in the order they were enqueued
\* (creation order), one at a time: the commands taken so far are commands
\* 1, 2, ..., and whenever a command is taken every command applied before
\* it has had its result handed to its own source.
C18_CommandsSerial ==
    LET taken == IF failed = NoVal THEN applied ELSE Append(applied, failed) IN
    /\ \A k \in 1..Len(taken) : taken[k] = k
    /\ Len(handed) = Len(applied)
    /\ \A k \in 1..Len(applied) :
          handed[k] = <<applied[k], commands[applied[k]].source>>

\* C18 witness: the consumer is between two commands of different sources
\* that were queued together.
C18_Witness ==
    /\ sys_pc = "busy"
    /\ Len(applied) >= 1
    /\ command_queue # <<>>
    /\ commands[applied[Len(applied)]].source # command_queue[1][2]

\* C19 (as claimed): no command is applied twice, and a result taken by a
\* source is the result of the command that this source produced and awaits.
C19_ResultToOwnSource ==
    /\ \A j \in 1..Len(applied) : \A k \in 1..Len(applied) :
          applied[j] = applied[k] => j = k
    /\ \A r \in received :
          /\ commands[r.cmd].source = r.source
          /\ r.cmd = r.for

\* C20 (as claimed): once applying a command has raised, the consumer loop is
\* over, no command queued after the failing one is applied, no result is
\* handed for the failing command and the source that awaits the failing
\* command's result receives none.
C20_FailureIsFatal ==
    failed # NoVal =>
        /\ sys_pc = "crashed"
        /\ \A k \in 1..Len(applied) : applied[k] < failed
        /\ \A k \in 1..Len(handed) : handed[k][1] # failed
        /\ \A r \in received : r.for # failed

\* C21: once stop() has cancelled the cycle task of a started provider, the
\* task has ended without a failure, the provider's running flag is false
\* and stop() was called on every attached hook.
C21_StopStopsHooks ==
    \A p \in ProviderIds :
        (start_calls[p] > 0 /\ asyncio_task[p] \in {"returned", "cancelled"}) =>
            /\ ~is_running[p]
            /\ \A h \in Attached(p) : hook_stopped[h]

C23_HookFailureIsLocal ==
    /\ [][\A h \in FleetHooks :
            /\ hook_tasks[h] = "raised" => hook_tasks'[h] = "raised"
            /\ (hook_tasks[h] # "raised" /\ hook_tasks'[h] = "raised") =>
                  /\ task_vars' = task_vars
                  /\ hook_stopped' = hook_stopped
                  /\ \A g \in FleetHooks \ {h} :
                        /\ hook_tasks'[g] = hook_tasks[g]
                        /\ hook_inbound'[g] = hook_inbound[g]
                        /\ hook_outbound'[g] = hook_outbound[g]]_vars
    /\ [](\A h \in FleetHooks, g \in FleetHooks :
            (hook_tasks[h] = "raised" /\ g # h /\ g[1] = h[1]
                /\ hook_tasks[g] = "idle" /\ ~hook_stopped[g]
                /\ hook_inbound[g] # <<>>) => ENABLED FleetHookGet(g))
    /\ [](\A h \in FleetHooks :
            (hook_tasks[h] = "raised" /\ is_with_callback[h[1]]) =>
                aggregated[h[1]] < hook_held[h])

C23_Witness ==
    \E h \in FleetHooks, g \in FleetHooks :
        /\ g # h
        /\ g[1] = h[1]
        /\ is_with_callback[h[1]]
        /\ hook_tasks[h] = "raised"
        /\ hook_outbound[g] = <<hook_held[h]>>
        /\ asyncio_task[h[1]] = "gather"

\* C24 as stated: from the moment get_content has raised on a Blocking
\* provider's worker thread, and unless stop() or start() is called, the
\* cycle task stays where it is, the running flag and the hooks' stop flags
\* do not change and nothing more is broadcast.
C24_WorkerDeathSilences ==
    [][\A p \in ProviderIds :
          (thread_pc'[p] = "dead" /\ ~must_cancel[p]
              /\ start_calls'[p] = start_calls[p]) =>
                /\ asyncio_task'[p] = asyncio_task[p]
                /\ is_running'[p] = is_running[p]
                /\ \A h \in Attached(p) : hook_stopped'[h] = hook_stopped[h]
                /\ notified'[p] = notified[p]]_vars

\* C24 amended: from the moment get_content has raised on a Blocking
\* provider's worker thread, and unless stop() or start() is called, the
\* cycle task stays in its wait on the handoff queue, the running flag and
\* the hooks' stop flags do not change, and a broadcast only hands on the
\* oldest item the worker had already handed off, which it takes off the
\* queue; no item is acquired any more.
C24_WorkerDeathDrains ==
    [][\A p \in ProviderIds :
          (thread_pc'[p] = "dead" /\ ~must_cancel[p]
              /\ start_calls'[p] = start_calls[p]) =>
                /\ asyncio_task'[p] = asyncio_task[p]
                /\ is_running'[p] = is_running[p]
                /\ \A h \in Attached(p) : hook_stopped'[h] = hook_stopped[h]
                /\ thread_pc[p] = "dead" => contents'[p] = contents[p]
                /\ \/ notified'[p] = notified[p]
                   \/ /\ handoff[p] # <<>>
                      /\ notified'[p] = Append(notified[p], Head(handoff[p]))
                      /\ handoff'[p] = Tail(handoff[p])]_vars

C24_Witness ==
    \E p \in ProviderIds :
        /\ thread_pc[p] = "dead"
        /\ asyncio_task[p] = "wait"
        /\ is_running[p]
        /\ contents[p] > 0
        /\ Len(notified[p]) = contents[p]
        /\ handoff[p] = <<>>
        /\ hook_count[p] > 0

\* C25: in a provider without aggregation every completed aggregation step
\* leaves each of its hooks' outbound queues empty and is over in the step
\* that began it, the caller going straight on to result_callback; and such
\* a provider that is about to acquire an item can always do so, whatever
\* its hooks are doing.
C25_DrainNeverSuspends ==
    /\ [][\A p \in ProviderIds :
            (~is_with_callback[p] /\ aggregated'[p] # aggregated[p]) =>
                /\ \A h \in Attached(p) : hook_outbound'[h] = <<>>
                /\ fleet_kind[p] = "Periodic" =>
                      asyncio_task[p] = "get" /\ asyncio_task'[p] = "callback"
                /\ fleet_kind[p] = "Blocking" =>
                      ~thread_gather'[p] /\ thread_pc'[p] = "callback"]_vars
    /\ [](\A p \in ProviderIds :
            (fleet_kind[p] = "Periodic" /\ ~is_with_callback[p]
                /\ asyncio_task[p] = "get" /\ ~must_cancel[p]
                /\ Total(contents, MaxRounds) < MaxRounds) =>
                    ENABLED FleetGetContent(p))

C25_Witness ==
    \E h \in FleetHooks, g \in FleetHooks :
        /\ g # h
        /\ g[1] = h[1]
        /\ ~is_with_callback[h[1]]
        /\ hook_tasks[h] = "busy"
        /\ hook_held[h] = 1
        /\ aggregated[h[1]] = 2
        /\ hook_outbound[g] = <<>>
        /\ hook_inbound[g] = <<2>>
        /\ hook_tasks[g] = "idle"

\* C26: over any sequence of start() and stop() calls on a Complex provider
\* its MessageSystem is initialized at most once: one pair of queues is
\* made and one listener task is created.
C26_InitializedOnce ==
    \A p \in ProviderIds :
        /\ initialize_calls[p] <= 1
        /\ queues_handed[p] <= 1
        /\ listener_tasks[p] <= 1

\* C27: every id in the waiter map is the id some thread is waiting for
\* inside retrieve_result; a waiter that returns has taken its id out of the
\* map; and when no thread is inside retrieve_result the map is empty.
C27_WaiterMapTracksWaiters ==
    /\ [](\A id \in DOMAIN needed_output_events :
            \E t \in Threads : th_pc[t] = "wait" /\ th_want[t] = id)
    /\ []((\A t \in Threads : th_pc[t] # "wait") => DOMAIN needed_output_events = {})
    /\ [][\A t \in Threads :
            (th_pc[t] = "wait" /\ th_pc'[t] = "idle") =>
                th_want[t] \notin DOMAIN needed_output_events']_vars

C27_Witness ==
    /\ \E r \in ret_log : r.waited
    /\ \A t \in Threads : th_pc[t] # "wait"
    /\ DOMAIN needed_output_events = {}

\* C28: a list handed out by get_providers / ListProvidersCommand or by
\* ListHooksCommand keeps the items it had when it was handed out for as long
\* as its holder does not change it, whatever is added to the orchestrator or
\* to a provider afterwards; and a holder changing its list changes neither
\* the orchestrator's provider list nor any provider's hook list.
C28_ReturnedListIsSnapshot ==
    /\ [](\A i \in 1..Len(returned) :
            ~returned[i].changed => Contents(returned[i].ref) = returned[i].at)
    /\ [][(\E i \in 1..Len(returned) : returned'[i].changed # returned[i].changed) =>
            (providers' = providers /\ hooks_of' = hooks_of)]_vars

C28_Witness ==
    \E i \in 1..Len(returned), j \in 1..Len(returned) :
        /\ ~returned[i].changed
        /\ Contents(returned[i].of) # returned[i].at
        /\ returned[j].changed
        /\ Contents(returned[j].of) # <<>>

\* C29: an execute_command of NewHookCommand(name, k) that attaches a hook
\* appends the created hook to the hook list of provider number k (counted
\* from 0) and changes no other provider's hook list and not the provider
\* list; an execute_command of NewProviderCommand that succeeds appends the
\* created provider, which was not in the list, at the end of the provider
\* list and changes no hook list.
C29_NewCommandsAppendOnly ==
    [][Len(executions') > Len(executions) =>
        LET e == executions'[Len(executions')] IN
            /\ (e.kind = "NewHook" /\ (hooks_of' # hooks_of \/ ~e.raised)) =>
                  /\ providers' = providers
                  /\ hooks_of'[providers[e.num + 1]] =
                        Append(hooks_of[providers[e.num + 1]], hooks_made')
                  /\ hooks_made' \notin UNION {Range(hooks_of[q]) : q \in ProviderIds}
                  /\ \A q \in ProviderIds \ {providers[e.num + 1]} :
                        hooks_of'[q] = hooks_of[q]
                  /\ ~e.raised => e.value = hooks_made'
            /\ (e.kind = "NewProvider" /\ ~e.raised) =>
                  /\ providers' = Append(providers, e.value)
                  /\ e.value \notin Range(providers)
                  /\ hooks_of' = hooks_of]_vars

C29_Witness ==
    /\ Len(providers) = 2
    /\ hooks_of[providers[1]] # <<>>
    /\ \E k \in 1..Len(executions) :
          /\ executions[k].kind = "NewHook"
          /\ executions[k].num = 1
          /\ ~executions[k].raised
          /\ hooks_of[providers[2]] = <<executions[k].value>>
    /\ \E k \in 1..Len(executions) :
          executions[k].kind = "NewProvider" /\ ~executions[k].raised

\* C30: an execute_command call whose _apply returned has returned _apply's
\* value and set the command's executed flag; one whose _apply raised, as the
\* base Command's always does, has returned nothing and left the flag false.
C30_ExecutedAfterApply ==
    \A k \in 1..Len(executions) :
        /\ executions[k].raised =>
              ~executions[k].executed /\ executions[k].value = NoVal
        /\ ~executions[k].raised =>
              executions[k].executed /\ executions[k].value = executions[k].applied
        /\ executions[k].kind = "Command" => executions[k].raised

C30_Witness ==
    \E j \in 1..Len(executions), k \in 1..Len(executions) :
        /\ executions[j].kind = "Command"
        /\ executions[j].raised
        /\ executions[k].kind = "ListProviders"
        /\ executions[k].executed

\* C31: registering an alias bound to a different class raises the alias
\* conflict error carrying the alias's class and the new class and leaves the
\* registry unchanged; registering the class an alias is already bound to
\* changes nothing and raises nothing; analysing again a path whose analysis
\* completed raises nothing and leaves the registry as it was.
C31_AliasConflictRejected ==
    /\ [][\A alias \in Aliases, cls \in Classes :
            AddClassToDict(alias, cls) /\ classes[alias] # NoClass =>
                /\ classes' = classes
                /\ alias_error' = IF classes[alias] = cls THEN <<>>
                                  ELSE <<alias, classes[alias], cls>>]_vars
    /\ [][\A path \in Paths :
            Analyse(path) /\ analysed_path = path =>
                classes' = classes /\ alias_error' = <<>>]_vars

C31_Witness ==
    /\ reg_seen = {"same", "conflict", "reanalysed"}
    /\ alias_error # <<>>
    /\ alias_error[2] = classes[alias_error[1]]

\* C32: over any sequence of add_hook, start, stop and restart of one provider
\* no hook's queue appears twice in the inbound-queue list or in the
\* outbound-queue list, so no broadcast enqueues an item twice on one hook.
C32_WiredOnce ==
    /\ \A i, j \in 1..Len(asyncio_straight_queues) :
            asyncio_straight_queues[i] = asyncio_straight_queues[j] => i = j
    /\ \A i, j \in 1..Len(asyncio_callback_queues) :
            asyncio_callback_queues[i] = asyncio_callback_queues[j] => i = j

\* C33: in a Blocking provider with aggregation and a hook in every cycle,
\* whenever hooks are added while a cycle is in progress (on the loop thread,
\* at any point), every aggregated result is aligned: its i-th
\* element is the i-th hook's output for that cycle's item (the k-th result
\* belongs to item k-1, the k-th one acquired), never an output left over
\* from an earlier item.
C33_LateHookAligned ==
    (kind = "Blocking" /\ \A k \in 1..Len(agg_log) : agg_log[k] # <<>>) =>
        \A k \in 1..Len(agg_log) :
            \A i \in 1..Len(agg_log[k]) :
                /\ i <= Len(asynio_hooks)
                /\ agg_log[k][i] = hook_action(asynio_hooks[i], k - 1)

\* C34: add_hook completes without error in every state of the provider:
\* never started, started with the cycle task not yet run (running flag set,
\* loop reference unset), running, and stopped; no add_hook call raises.
C34_AddHookNeverRaises ==
    \A h \in Range(asynio_hooks) : h \notin add_raised

\* C35: after stop() on a started provider the running flag is eventually
\* false, also when stop() came before the cycle task's first step; and an
\* add_hook on the stopped provider only appends to the hook list: it wires
\* no queue and starts no hook task.
C35_StopLowersFlag ==
    /\ (prov_pc \in {"stopped", "cancelled"}) ~> ~asyncio_running
    /\ [][(prov_pc \in {"stopped", "cancelled"} /\ asynio_hooks' # asynio_hooks) =>
            UNCHANGED <<asyncio_straight_queues, asyncio_callback_queues, hook_pc>>]_vars

\* C36: after a Blocking provider is stopped (cycle task cancelled inside the
\* cycle, hooks stopped) its worker thread eventually leaves its loop and
\* terminates, also when it was waiting for an aggregation result.
C36_WorkerTerminates ==
    (kind = "Blocking" /\ prov_pc = "stopped") ~> (worker_pc = "ended")

\* a Blocking provider with aggregation and at least one hook
Aggregating(p) ==
    /\ fleet_kind[p] = "Blocking"
    /\ is_with_callback[p]
    /\ hook_count[p] >= 1

C38_BothWaitersReturn ==
    \A t \in Threads :
        /\ th_pc[t] # "crashed"
        /\ (/\ th_pc[t] = "wait"
            /\ th_want[t] \in DOMAIN result_to_mID_mapping
            /\ listener_pc = "get") => event_set[t]

\* C39: every provider in the orchestrator's provider set is started exactly
\* once, also one passed to add_provider from another thread while the
\* orchestrator is launching: once the launch is over and no add_provider is
\* under way (and none raised), start() was called once on every provider of
\* the set and every one has one cycle task.
C39_StartedExactlyOnce ==
    (sys_pc = "get" /\ fadd_pc = "idle" /\ fadd_raised = {}) =>
        \A i \in 1..Len(providers) :
            /\ provider_started[providers[i]] = 1
            /\ cycle_tasks[providers[i]] = 1

====
